---------------------------- MODULE Spec2Model ----------------------------
(***************************************************************************)
(* Multi-rail (libfabric) backend engine of NIXL: the transfer path        *)
(* (postXfer / checkXfer on a nixlLibfabricBackendH), the receiver's       *)
(* XFER_ID tracking and notification queuing, and the control-plane        *)
(* connection handshake.                                                   *)
(*                                                                         *)
(* The specifications of the module:                                       *)
(*   Spec          initiator posts, fabric, receiver threads, getNotifs    *)
(*   SpecConn      loadRemoteConnInfo / connect / disconnect, CM thread    *)
(*   FairSpecConn  SpecConn with the threads that keep running             *)
(*   SpecPrep      SpecConn with prepXfer and the lists postXfer walks     *)
(*   SpecMo        the engine of engines (nixlUcxMoEngine)                 *)
(*   SpecApi       the connection calls of both engines                    *)
(*   SpecEp        the UCX endpoint (nixlUcxEp) and ucx_status_to_nixl     *)
(*   SpecMoX       postXfer / checkXfer of the engine of engines           *)
(*   SpecRel       Spec with releaseReqH                                   *)
(*   SpecLife      engine start, self-connection, threads, destructor      *)
(*   FairSpecLife  SpecLife with the threads that keep running             *)
(*   SpecLock      the receiver's two mutexes and the threads taking them  *)
(*   SpecMap       connections_ and its mutex, with the threads spelled out*)
(*   SpecThr       the striping threshold from init parameter to decision  *)
(*   SpecCtl       the control request pool of control rail 0              *)
(*   SpecMd        registrations and remote metadata, engine of engines    *)
(*   FairSpec      Spec with the fabric and the threads that keep running  *)
(*   SpecDreg      registerMem / deregisterMem on one registration         *)
(*   SpecCreq      processConnectionRequest on the receiver's CM thread    *)
(*   SpecPt        who progresses the data rails                           *)
(*   SpecVram      the GPU context and the address workaround              *)
(*   SpecEpDisc    SpecEp with disconnect_nb called on a live endpoint     *)
(*   SpecMp        prepXfer of the engine of engines over its dlMatrix     *)
(***************************************************************************)
EXTENDS Integers, Sequences, FiniteSets, TLC

(***************************************************************************)
(* Bounds of the model.                                                    *)
(***************************************************************************)
\* descriptors of one postXfer
MaxDescs == 1
\* postXfer calls on the handle
MaxPosts == 2
\* largest descriptor length, in units of striping_threshold_ / 2
MaxSize == 3
\* standalone genNotif calls
MaxGen == 1

\* loadRemoteConnInfo calls that create a connection
MaxLoads == 3

\* the rail manager's striping threshold, in the same unit as MaxSize
striping_threshold_ == 2

\* the initiating agent (localAgent of the posting engine)
Initiators == {"Agent1"}
\* data rails of an engine; their number is fixed at construction
Rails == {0, 1}
NumDataRails == Cardinality(Rails)
\* slots of one rail's data request pool
Slots == {0, 1}
PoolSlots == Cardinality(Slots)
Sizes == 0 .. MaxSize
\* the message postXfer attaches on its p-th call is p; the g-th genNotif
\* sends message -g
Msgs == (0 - MaxGen) .. MaxPosts
\* the XFER_IDs of the initiator's data request pools
XferIds == 1 .. (NumDataRails * PoolSlots)
\* remote agents the engine is told about
Peers == {"Agent2", "Agent3"}
\* engine of engines: GPUs found, num_ucx_engines given, device ids tried,
\* engine count a remote blob may announce
gpuCnt == 1
num_ucx_engines == 2
MaxDevId == 2
DevIds == 0 .. MaxDevId
MaxRemoteEngines == 2
\* descriptor counts given to prepXfer
MaxPrepDescs == 1
DescCounts == 0 .. MaxPrepDescs
\* UCX endpoint objects
Eps == {1, 2}
\* error callbacks the transport delivers to one endpoint
MaxErrCbs == 2
\* threads that run the receiver's functions: the CM thread, the progress
\* thread and a user thread
Threads == {"cm", "progress", "user"}
\* threads that use connections_: the CM thread and two user threads
MapThreads == {"cm", "userA", "userB"}
\* the default striping threshold, 1 MiB, in bytes
NIXL_LIBFABRIC_DEFAULT_STRIPING_THRESHOLD == 1048576
\* texts of the striping_threshold init parameter, one character per element
ThresholdTexts == {<<>>, <<"x">>, <<"0">>, <<"5">>, <<"5", "x">>, <<" ", "5">>,
                   <<"1", "0", "4", "8", "5", "7", "6">>,
                   <<"1", "0", "4", "8", "5", "7", "7">>,
                   <<"2", "0", "9", "7", "1", "5", "2">>,
                   <<"6", "4">>, <<"x", "5">>}
\* transfer sizes in bytes
ThresholdSizes == {0, 1, 5, 6, 64, 65, 1048575, 1048576, 1048577, 2097152, 2097153}
\* slots of the control request pool of control rail 0 (256 in the code)
ControlSlots == 3
\* registerMem and loadRemoteMD calls on the engine of engines
MaxMdCalls == 4
\* registrations (private metadata objects) of the multi-rail engine
Regs == {1, 2}
\* deregistrations of one memory region on one rail that are counted
MaxCloses == 2
\* CONNECTION_REQ messages that arrive at the receiver
MaxReqs == 3
\* agent indices a request may carry
AgentIdxs == {0, 1}
\* control rails of an engine, and the endpoint names of the peers' control
\* and data rails
ControlRails == {0, 1}
CtlEndpoints == {<<a, "control", r>> : a \in Peers, r \in ControlRails}
DataEndpoints == {<<a, "data", r>> : a \in Peers, r \in Rails}
\* completions that arrive on the data rails, calls one caller makes
MaxCompletions == 3
MaxPtCalls == 2
\* the engine functions that run on the user's thread, and the two threads
PtApi == {"postXfer", "checkXfer", "getNotifs"}
PtCallers == PtApi \cup {"progressThread", "cmThread"}
\* GPUs, their contexts (NullCtx is the null pointer), registrations made
VramDevs == {0, 1}
NullCtx == 0
CudaCtxs == {1, 2}
MaxVramRegs == 3
\* closes after which an endpoint's owner stops calling disconnect_nb
MaxEpCloses == 2
\* rows (local engines) and columns (remote engines) of the dlMatrix, and
\* the prepXfer calls made on it
MpRows == 2
MpCols == 3
MaxMpCalls == 2
MpCells == (0 .. MpRows - 1) \X (0 .. MpCols - 1)
\* pending notifications one checkPendingNotifications call moves
MaxScan == 2
\* in_use elements of a request's dlMatrix, in the order the loops visit them
MoElems == {1, 2}
\* postXfer and checkXfer calls on one request handle of the engine of engines
MaxMoPosts == 2
MaxMoChecks == 3

VARIABLES
    \* ---- initiator: the user thread inside / between postXfer calls
    hPc,                    \* "ready" | "init" | "loop"
    postNo,                 \* posts begun on the handle (also the notification message)
    descLeft,               \* descriptors the posting loop still has to submit
    opType,                 \* "WRITE" | "READ" of the post being made
    hasNotif,               \* opt_args->hasNotif of the post being made
    postRet,                \* status returned by the last postXfer ("NONE" before)
    \* ---- nixlLibfabricBackendH
    total_requests_used_,
    completed_requests_,
    \* ---- BinaryNotification being built in the control request buffer
    binary_notif,           \* its xfer_ids array (xfer_id_count = Len)
    \* ---- rail manager of the initiator
    free_indices_,          \* per data rail: free-index stack of the data request pool
    rrNext,                 \* round-robin cursor for unstriped transfers
    genCount,               \* genNotif calls made
    \* ---- fabric
    flight,                 \* sub-requests submitted and not yet locally completed
    rcq,                    \* receiver's data-rail completion queues (remote writes)
    ctlq,                   \* notification messages on the way to control rail 0
    \* ---- receiver engine
    received_remote_writes_,
    pending_notifications_,
    notifMainList_,
    cmPc,                   \* CM thread inside processNotification: "idle" | "commit"
    cmNotif,                \* the notification it holds
    cmAllRecv,              \* what allXferIdsReceived answered
    dpPc,                   \* data progress inside addReceivedXferId: "idle" | "check"
    \* ---- history (not program state)
    delivered,              \* how often getNotifs has returned each (agent, message)
    xidUses,                \* how many sub-requests have carried each XFER_ID
    \* ---- connection management of the engine
    agent_names_,           \* vector of agent names, indexed by agent_index_
    connections_,           \* agent name -> connection (NoConn when not in the map)
    connection_state_mutex_,\* "free" | "held" | "broken"
    uPc,                    \* user thread: "idle" | "wait" (inside cv_.wait)
    uAgent,                 \* the agent establishConnection waits for
    connRet,                \* status returned by the last connection call
    reqs,                   \* CONNECTION_REQ messages on their way to a peer
    acks,                   \* CONNECTION_ACK messages on their way back
    peerUp,                 \* whether each peer's engine is still running
    \* ---- prepXfer / postXfer arguments of the multi-rail engine
    prepRet,                \* status returned by the last prepXfer
    prepH,                  \* request handle it produced, with the lists it was given
    remoteOob,              \* postXfer has read remote[desc_idx] past the list's end
    \* ---- engine of engines (nixlUcxMoEngine)
    remoteConnMap,          \* agent name -> nixlUcxMoConnection (NoMoConn when absent)
    moRet,                  \* status returned by the last call
    moOut,                  \* what the last call handed out: "none" | "md" | "handle"
    moSub,                  \* whether the last call reached a sub-engine
    moMds,                  \* sub-engine indices of the private metadata handed out
    \* ---- UCX endpoints (nixlUcxEp), one entry per endpoint object
    epLive,                 \* "none" (not constructed) | "live" | "gone" (destroyed)
    epState,                \* state: "NULL" | "CONNECTED" | "FAILED" | "DISCONNECTED"
    eph,                    \* the transport's endpoint handle: "null" | "ep"
    epUcs,                  \* transport status last given to ucx_status_to_nixl
    epNixl,                 \* what ucx_status_to_nixl answered for it
    epRet,                  \* status returned by the last closeImpl
    epDiscRet,              \* status returned by the last disconnect_nb
    \* ---- history (not program state)
    epClose,                \* close calls made on the transport's endpoint, in order
    epErrs,                 \* error callbacks the transport has delivered
    \* ---- request handle of the engine of engines (nixlUcxMoRequestH)
    in_progress,            \* dlMatrix element -> its in_progress flag
    notifNeed,              \* notifNeed
    notifMsg,               \* notifMsg (the message of post p is p)
    xRet,                   \* status returned by the last postXfer / checkXfer
    \* ---- sub-engines and history (not state of the engine of engines)
    xSub,                   \* sub-engine transfer of an element: "idle" | "flying" | "done"
    xPost,                  \* postXfer calls made on the handle
    xWant,                  \* post -> whether it asked for a notification
    xPosted,                \* status the last postXfer returned
    xChecks,                \* checkXfer calls made on the handle
    xSent,                  \* message -> genNotif calls made with it
    \* ---- request handles given back to the multi-rail engine
    released,               \* initiator -> releaseReqH was called on its handle
    \* ---- life of one multi-rail engine: construction, self-connection, threads
    blocking_cq_sread_supported, \* of control rail 0: "unset" | "yes" | "no"
    selfConn,               \* connections_[localAgent]: "NONE" | "DISCONNECTED" | "CONNECTED"
    selfq,                  \* control messages on their way to the engine's own control rail 0
    cmThread,               \* CM thread: "none" | "check" | "progress" | "exited"
    progressThread,         \* progress thread: "none" | "run" | "exited"
    cm_thread_stop_,
    progress_thread_stop_,
    sUser,                  \* user thread on the self-connection: "idle" | "wait"
    dtor,                   \* destructor: "none" | "stop" | "post" | "joinCm" | "joinProgress" | "done"
    \* ---- the receiver's two mutexes and the threads that take them
    receiver_tracking_mutex_, \* owner: "free" or a thread
    notif_mutex_,           \* owner: "free" or a thread
    lPc,                    \* thread -> where it is inside the receiver's functions
    lScan,                  \* thread -> entries its checkPendingNotifications has moved
    \* ---- threads that use connections_, with the mutex owner spelled out
    csmOwner,               \* owner of connection_state_mutex_: "free" | "broken" | thread
    mapPc,                  \* thread -> where it is in a function that uses connections_
    csmBadUnlock,           \* a thread has unlocked connection_state_mutex_ without owning it
    conn_state_mutex_,      \* owner of the connection's own mutex: "free" | thread
    stateWrites,            \* writes of overall_state_ so far: who wrote, under which mutexes
    \* ---- the striping threshold from the init parameter to the rail manager
    thrPc,                  \* "none" before the engine's constructor, "up" after
    thrParam,               \* the striping_threshold init parameter: given or not, and its text
    engineThreshold,        \* nixlLibfabricEngine::striping_threshold_, in bytes
    railThreshold,          \* nixlLibfabricRailManager::striping_threshold_, in bytes
    thrSize,                \* transfer size of the last shouldUseStriping call
    thrStriped,             \* what that call answered
    \* ---- the control request pool of control rail 0
    ctlFree,                \* free-index stack of the control request pool
    ctlHeld,                \* slots handed out and neither posted nor released
    ctlFlight,              \* slots whose control message has been posted
    ctlRet,                 \* status returned by the last call that took a slot
    \* ---- metadata objects of the engine of engines and of its sub-engines
    mdSubRegs,              \* live sub-engine registrations
    mdPrivs,                \* nixlUcxMoPrivateMetadata objects the caller holds
    mdSubRemote,            \* live sub-engine remote metadata objects
    mdPubs,                 \* nixlUcxMoPublicMetadata objects the caller holds
    mdCalls,                \* registerMem and loadRemoteMD calls so far
    mdRet,                  \* status returned by the last of these calls
    \* ---- registrations of the multi-rail engine and their deregistration
    regState,               \* registration -> "none" | "live" | "freed" (priv deleted)
    regMr,                  \* registration -> rail -> "none" | "registered" | "closed"
    regCloses,              \* registration -> rail -> how often the rail closed its MR
    regRet,                 \* status returned by the last registerMem / deregisterMem
    regCrash,               \* a deregisterMem has crashed the process
    \* ---- the receiver of CONNECTION_REQ messages (CM thread of the target)
    crq,                    \* CONNECTION_REQ messages that have arrived and are not processed
    crArrived,              \* how many have arrived so far
    crAvData,               \* endpoint names inserted into the data rails' address vectors
    crAvCtl,                \* endpoint names inserted into the control rails' address vectors
    crAcks,                 \* CONNECTION_ACKs posted: (rail, destination, agent_idx) -> count
    crOk,                   \* requests processed with NIXL_SUCCESS: (sender, agent_idx) -> count
    crFailed,               \* requests whose processing returned an error
    \* ---- who processes data rail completions
    ptBuilt,                \* the engine's constructor has run
    ptDestroyed,            \* the engine's destructor has run
    progress_thread_enabled_,
    ptRunning,              \* the progress thread is in its loop
    ptArrived,              \* completions that have arrived on data rail queues so far
    cqData,                 \* completions waiting in the data rails' completion queues
    ptCalls,                \* caller -> calls made
    ptDone,                 \* caller -> data rail completions it has processed
    \* ---- the GPU context of the multi-rail engine (HAVE_CUDA)
    vrBuilt,                \* the constructor has run
    cuda_addr_wa_,          \* the CUDA address workaround is enabled
    pthrCudaCtx_,           \* cached context, NullCtx when none
    myDevId_,               \* cached device id, -1 when none
    vrFirst,                \* <<context, device id>> of the first binding, <<>> before it
    vrRegs,                 \* VRAM registrations made so far
    vrLast,                 \* what the last registerMem saw and returned
    \* ---- prepXfer of the engine of engines over its dlMatrix
    mpCalls,                \* prepXfer calls made
    mpUse,                  \* cells of the dlMatrix in use in the last call
    mpPrepared,             \* cells whose sub-engine request the last call prepared
    mpReleased,             \* cells whose sub-engine request the last call released
    mpRet,                  \* what the last call returned
    mpHandle                \* whether the last call assigned the handle

handleVars == <<hPc, postNo, descLeft, opType, hasNotif, postRet,
                total_requests_used_, completed_requests_, binary_notif>>
railVars == <<free_indices_, rrNext, genCount>>
netVars == <<flight, rcq, ctlq>>
recvVars == <<received_remote_writes_, pending_notifications_, notifMainList_,
              cmPc, cmNotif, cmAllRecv, dpPc>>
histVars == <<delivered, xidUses>>
xferVars == <<handleVars, railVars, netVars, recvVars, histVars>>

connVars == <<agent_names_, connections_, connection_state_mutex_, uPc, uAgent,
              connRet, reqs, acks, peerUp>>

prepVars == <<prepRet, prepH, remoteOob>>
moVars == <<remoteConnMap, moRet, moOut, moSub, moMds>>
epVars == <<epLive, epState, eph, epUcs, epNixl, epRet, epDiscRet, epClose, epErrs>>
moxVars == <<in_progress, notifNeed, notifMsg, xRet, xSub, xPost, xWant, xPosted,
             xChecks, xSent>>
relVars == <<released>>
lifeVars == <<blocking_cq_sread_supported, selfConn, selfq, cmThread, progressThread,
              cm_thread_stop_, progress_thread_stop_, sUser, dtor>>
lockVars == <<receiver_tracking_mutex_, notif_mutex_, lPc, lScan>>
mapVars == <<csmOwner, mapPc, csmBadUnlock, conn_state_mutex_, stateWrites>>
thrVars == <<thrPc, thrParam, engineThreshold, railThreshold, thrSize, thrStriped>>
ctlVars == <<ctlFree, ctlHeld, ctlFlight, ctlRet>>
mdVars == <<mdSubRegs, mdPrivs, mdSubRemote, mdPubs, mdCalls, mdRet>>
dregVars == <<regState, regMr, regCloses, regRet, regCrash>>
creqVars == <<crq, crArrived, crAvData, crAvCtl, crAcks, crOk, crFailed>>
ptVars == <<ptBuilt, ptDestroyed, progress_thread_enabled_, ptRunning, ptArrived, cqData,
           ptCalls, ptDone>>
vramVars == <<vrBuilt, cuda_addr_wa_, pthrCudaCtx_, myDevId_, vrFirst, vrRegs, vrLast>>
mpVars == <<mpCalls, mpUse, mpPrepared, mpReleased, mpRet, mpHandle>>
lateVars == <<dregVars, creqVars, ptVars, vramVars, mpVars>>
extVars == <<moxVars, relVars, lifeVars, lockVars, mapVars, thrVars, ctlVars, mdVars, lateVars>>
apiVars == <<prepVars, moVars, epVars, extVars>>

vars == <<xferVars, connVars, apiVars>>

\* A notification as the receiver holds it.  agent, msg and ids are the
\* BinaryNotification's fields; nsubs and op record the post it belongs to
\* (number of sub-requests, kind) and path how it reached notifMainList_; the
\* program keeps only (agent, msg) in notifMainList_.
NoNotif == [agent |-> "", msg |-> 0, ids |-> {}, nsubs |-> 0, op |-> "NONE"]

\* connections_.find(agent) == connections_.end()
NoConn == [overall_state_ |-> "NONE", agent_index_ |-> 0 - 1]

\* no request handle: the handle argument of prepXfer was left untouched
NoHandle == [agent |-> "", nl |-> 0 - 1, nr |-> 0 - 1]

\* remoteConnMap.find(agent) == remoteConnMap.end()
NoMoConn == [num_engines |-> 0 - 1]

(***************************************************************************)
(* Helpers on sequences.                                                   *)
(***************************************************************************)
Range(s) == {s[k] : k \in 1 .. Len(s)}

(***************************************************************************)
(* nixlLibfabricBackendH                                                   *)
(***************************************************************************)
is_completed(i) == completed_requests_[i] = total_requests_used_[i]

\* checkXfer: the data rails are progressed elsewhere; the answer is the
\* comparison of the two counters
checkXfer(i) == IF is_completed(i) THEN "NIXL_SUCCESS" ELSE "NIXL_IN_PROG"

(***************************************************************************)
(* Request pools and striping (rail / rail manager).                       *)
(***************************************************************************)
\* XFER_ID pre-assigned to slot s of rail r's data pool at pool initialization,
\* drawn from the process-wide counter
XferIdOf(r, s) == r * PoolSlots + s + 1

shouldUseStriping(transfer_size) == transfer_size > striping_threshold_

selected_rails_ == [k \in 1 .. NumDataRails |-> k - 1]

\* rails a descriptor of the given size is submitted on, in submission order
RailsFor(i, sz) ==
    IF shouldUseStriping(sz) THEN selected_rails_ ELSE <<rrNext[i]>>

\* how many leading rails of rs still have a free data request
RECURSIVE AllocPrefix(_, _)
AllocPrefix(i, rs) ==
    IF rs = <<>> \/ free_indices_[i][Head(rs)] = <<>> THEN 0
    ELSE 1 + AllocPrefix(i, Tail(rs))

Init ==
    /\ hPc = [i \in Initiators |-> "ready"]
    /\ postNo = [i \in Initiators |-> 0]
    /\ descLeft = [i \in Initiators |-> 0]
    /\ opType = [i \in Initiators |-> "NONE"]
    /\ hasNotif = [i \in Initiators |-> FALSE]
    /\ postRet = [i \in Initiators |-> "NONE"]
    /\ total_requests_used_ = [i \in Initiators |-> 0]
    /\ completed_requests_ = [i \in Initiators |-> 0]
    /\ binary_notif = [i \in Initiators |-> <<>>]
    /\ free_indices_ = [i \in Initiators |-> [r \in Rails |-> [k \in 1 .. PoolSlots |-> k - 1]]]
    /\ rrNext = [i \in Initiators |-> 0]
    /\ genCount = [i \in Initiators |-> 0]
    /\ flight = {}
    /\ rcq = [r \in Rails |-> <<>>]
    /\ ctlq = {}
    /\ received_remote_writes_ = {}
    /\ pending_notifications_ = <<>>
    /\ notifMainList_ = <<>>
    /\ cmPc = "idle"
    /\ cmNotif = NoNotif
    /\ cmAllRecv = FALSE
    /\ dpPc = "idle"
    /\ delivered = [k \in Initiators \X Msgs |-> 0]
    /\ xidUses = [x \in XferIds |-> 0]
    /\ agent_names_ = <<>>
    /\ connections_ = [a \in Peers |-> NoConn]
    /\ connection_state_mutex_ = "free"
    /\ uPc = "idle"
    /\ uAgent = ""
    /\ connRet = "NONE"
    /\ reqs = {}
    /\ acks = {}
    /\ peerUp = [a \in Peers |-> TRUE]
    /\ prepRet = "NONE"
    /\ prepH = NoHandle
    /\ remoteOob = FALSE
    /\ remoteConnMap = [a \in Peers |-> NoMoConn]
    /\ moRet = "NONE"
    /\ moOut = "none"
    /\ moSub = FALSE
    /\ moMds = {}
    /\ epLive = [e \in Eps |-> "none"]
    /\ epState = [e \in Eps |-> "NULL"]
    /\ eph = [e \in Eps |-> "null"]
    /\ epUcs = [e \in Eps |-> "NONE"]
    /\ epNixl = [e \in Eps |-> "NONE"]
    /\ epRet = [e \in Eps |-> "NONE"]
    /\ epDiscRet = [e \in Eps |-> "NONE"]
    /\ epClose = [e \in Eps |-> <<>>]
    /\ epErrs = [e \in Eps |-> 0]
    /\ in_progress = [m \in MoElems |-> FALSE]
    /\ notifNeed = FALSE
    /\ notifMsg = 0
    /\ xRet = "NONE"
    /\ xSub = [m \in MoElems |-> "idle"]
    /\ xPost = 0
    /\ xWant = [p \in 1 .. MaxMoPosts |-> FALSE]
    /\ xPosted = "NONE"
    /\ xChecks = 0
    /\ xSent = [p \in 0 .. MaxMoPosts |-> 0]
    /\ released = [i \in Initiators |-> FALSE]
    /\ blocking_cq_sread_supported = "unset"
    /\ selfConn = "NONE"
    /\ selfq = <<>>
    /\ cmThread = "none"
    /\ progressThread = "none"
    /\ cm_thread_stop_ = FALSE
    /\ progress_thread_stop_ = FALSE
    /\ sUser = "idle"
    /\ dtor = "none"
    /\ receiver_tracking_mutex_ = "free"
    /\ notif_mutex_ = "free"
    /\ lPc = [t \in Threads |-> "idle"]
    /\ lScan = [t \in Threads |-> 0]
    /\ csmOwner = "free"
    /\ mapPc = [t \in MapThreads |-> "idle"]
    /\ csmBadUnlock = FALSE
    /\ conn_state_mutex_ = "free"
    /\ stateWrites = {}
    /\ thrPc = "none"
    /\ thrParam = [given |-> FALSE, str |-> <<>>]
    /\ engineThreshold = 0
    /\ railThreshold = 0
    /\ thrSize = 0
    /\ thrStriped = FALSE
    /\ ctlFree = [k \in 1 .. ControlSlots |-> k - 1]
    /\ ctlHeld = {}
    /\ ctlFlight = {}
    /\ ctlRet = "none"
    /\ mdSubRegs = 0
    /\ mdPrivs = 0
    /\ mdSubRemote = 0
    /\ mdPubs = 0
    /\ mdCalls = 0
    /\ mdRet = "none"
    /\ regState = [g \in Regs |-> "none"]
    /\ regMr = [g \in Regs |-> [r \in Rails |-> "none"]]
    /\ regCloses = [g \in Regs |-> [r \in Rails |-> 0]]
    /\ regRet = "none"
    /\ regCrash = FALSE
    /\ crq = {}
    /\ crArrived = 0
    /\ crAvData = {}
    /\ crAvCtl = {}
    /\ crAcks = [k \in ControlRails \X CtlEndpoints \X AgentIdxs |-> 0]
    /\ crOk = [k \in Peers \X AgentIdxs |-> 0]
    /\ crFailed = 0
    /\ ptBuilt = FALSE
    /\ ptDestroyed = FALSE
    /\ progress_thread_enabled_ = FALSE
    /\ ptRunning = FALSE
    /\ ptArrived = 0
    /\ cqData = 0
    /\ ptCalls = [w \in PtCallers |-> 0]
    /\ ptDone = [w \in PtCallers |-> 0]
    /\ vrBuilt = FALSE
    /\ cuda_addr_wa_ = FALSE
    /\ pthrCudaCtx_ = NullCtx
    /\ myDevId_ = -1
    /\ vrFirst = <<>>
    /\ vrRegs = 0
    /\ vrLast = [seg |-> "none", dev |-> -1, wa |-> FALSE, bound |-> -1, ret |-> "none"]
    /\ mpCalls = 0
    /\ mpUse = {}
    /\ mpPrepared = {}
    /\ mpReleased = {}
    /\ mpRet = "NONE"
    /\ mpHandle = FALSE

(***************************************************************************)
(* postXfer, initiator side.                                               *)
(***************************************************************************)
\* postXfer sizing the provisional total by the descriptor count alone
PostBegin_noRails(i, nd, op, notif) ==
    /\ hPc[i] = "ready"
    /\ ~released[i]
    /\ postNo[i] < MaxPosts
    /\ \A s \in flight : s.ini # i
    /\ hPc' = [hPc EXCEPT ![i] = "init"]
    /\ postNo' = [postNo EXCEPT ![i] = @ + 1]
    /\ descLeft' = [descLeft EXCEPT ![i] = nd]
    /\ opType' = [opType EXCEPT ![i] = op]
    /\ hasNotif' = [hasNotif EXCEPT ![i] = notif]
    /\ binary_notif' = [binary_notif EXCEPT ![i] = <<>>]
    /\ total_requests_used_' = [total_requests_used_ EXCEPT ![i] = nd]
    /\ UNCHANGED <<postRet, completed_requests_>>
    /\ UNCHANGED <<railVars, netVars, recvVars, histVars, connVars, apiVars>>

\* postXfer up to the first store of init_request_tracking:
\* total_requests_used_.store(desc_count * getNumDataRails()).
\* The handle is posted again only when no sub-request of it is outstanding.
PostBegin(i, nd, op, notif) ==
    /\ hPc[i] = "ready"
    /\ ~released[i]
    /\ postNo[i] < MaxPosts
    /\ \A s \in flight : s.ini # i
    /\ hPc' = [hPc EXCEPT ![i] = "init"]
    /\ postNo' = [postNo EXCEPT ![i] = @ + 1]
    /\ descLeft' = [descLeft EXCEPT ![i] = nd]
    /\ opType' = [opType EXCEPT ![i] = op]
    /\ hasNotif' = [hasNotif EXCEPT ![i] = notif]
    /\ binary_notif' = [binary_notif EXCEPT ![i] = <<>>]
    /\ total_requests_used_' = [total_requests_used_ EXCEPT ![i] = nd * NumDataRails]
    /\ UNCHANGED <<postRet, completed_requests_>>
    /\ UNCHANGED <<railVars, netVars, recvVars, histVars, connVars, apiVars>>

\* init_request_tracking that leaves completed_requests_ as the previous post
\* left it
PostInit_noReset(i) ==
    /\ hPc[i] = "init"
    /\ hPc' = [hPc EXCEPT ![i] = "loop"]
    /\ postRet' = [postRet EXCEPT ![i] = "NONE"]
    /\ UNCHANGED <<postNo, descLeft, opType, hasNotif, total_requests_used_,
                   completed_requests_, binary_notif>>
    /\ UNCHANGED <<railVars, netVars, recvVars, histVars, connVars, apiVars>>

\* second store of init_request_tracking: completed_requests_.store(0)
PostInit(i) ==
    /\ hPc[i] = "init"
    /\ hPc' = [hPc EXCEPT ![i] = "loop"]
    /\ completed_requests_' = [completed_requests_ EXCEPT ![i] = 0]
    /\ postRet' = [postRet EXCEPT ![i] = "NONE"]
    /\ UNCHANGED <<postNo, descLeft, opType, hasNotif, total_requests_used_, binary_notif>>
    /\ UNCHANGED <<railVars, netVars, recvVars, histVars, connVars, apiVars>>

\* postXfer returns st: its locals (loop position, operation, options, the
\* notification under construction) cease to exist
Return(i, st) ==
    /\ hPc' = [hPc EXCEPT ![i] = "ready"]
    /\ postRet' = [postRet EXCEPT ![i] = st]
    /\ descLeft' = [descLeft EXCEPT ![i] = 0]
    /\ opType' = [opType EXCEPT ![i] = "NONE"]
    /\ hasNotif' = [hasNotif EXCEPT ![i] = FALSE]
    /\ binary_notif' = [binary_notif EXCEPT ![i] = <<>>]

\* one iteration of the posting loop: validate the descriptor's metadata, then
\* prepareAndSubmitTransfer.  md is the state of the metadata pointers, sz the
\* descriptor length, nOk the number of sub-requests the fabric accepts before
\* a submission fails (all of them when nOk = Len(RailsFor(i, sz))).
PostDesc(i, md, sz, nOk) ==
    /\ hPc[i] = "loop"
    /\ descLeft[i] > 0
    /\ IF md # "ok"
       THEN /\ nOk = 0
            /\ Return(i, IF md = "null" THEN "NIXL_ERR_INVALID_PARAM" ELSE "NIXL_ERR_MISMATCH")
            /\ UNCHANGED <<free_indices_, rrNext, flight, xidUses>>
       ELSE LET rs == RailsFor(i, sz)
                base == Len(binary_notif[i])
                sub(k) == [ini |-> i, post |-> postNo[i], idx |-> base + k,
                           rail |-> rs[k], slot |-> Head(free_indices_[i][rs[k]]),
                           xid |-> XferIdOf(rs[k], Head(free_indices_[i][rs[k]])),
                           op |-> opType[i], st |-> "posted"]
                used == {rs[k] : k \in 1 .. nOk}
            IN  /\ nOk \in 0 .. AllocPrefix(i, rs)
                /\ flight' = flight \cup {sub(k) : k \in 1 .. nOk}
                /\ xidUses' = [x \in XferIds |->
                                  xidUses[x] + Cardinality({k \in 1 .. nOk : sub(k).xid = x})]
                /\ free_indices_' = [free_indices_ EXCEPT ![i] =
                                        [r \in Rails |-> IF r \in used THEN Tail(@[r]) ELSE @[r]]]
                /\ rrNext' = [rrNext EXCEPT ![i] =
                                 IF shouldUseStriping(sz) THEN @ ELSE (@ + 1) % NumDataRails]
                /\ IF nOk = Len(rs)
                   THEN /\ descLeft' = [descLeft EXCEPT ![i] = @ - 1]
                        /\ binary_notif' = [binary_notif EXCEPT ![i] =
                                               @ \o [k \in 1 .. nOk |-> sub(k).xid]]
                        /\ UNCHANGED <<hPc, postRet, opType, hasNotif>>
                   ELSE Return(i, "NIXL_ERR_BACKEND")
    /\ UNCHANGED <<postNo, total_requests_used_, completed_requests_, genCount, rcq, ctlq>>
    /\ UNCHANGED <<recvVars, delivered, connVars, apiVars>>

\* the notification postXfer sends: agent name, message and the XFER_ID manifest
XferNotif(i) ==
    [agent |-> i, msg |-> postNo[i], ids |-> Range(binary_notif[i]),
     nsubs |-> Len(binary_notif[i]), op |-> opType[i]]

\* after the loop: adjust_total_requests(xfer_id_count), the immediate
\* notification, and the is_completed() test that decides the return value.
\* Without a progress thread postXfer answers NIXL_IN_PROG whenever its own
\* progress call found no completion, so IN_PROG is always a possible answer.
PostFinish(i, ret) ==
    /\ hPc[i] = "loop"
    /\ descLeft[i] = 0
    /\ total_requests_used_' = [total_requests_used_ EXCEPT ![i] = Len(binary_notif[i])]
    /\ ctlq' = IF hasNotif[i] THEN ctlq \cup {XferNotif(i)} ELSE ctlq
    /\ ret \in {"NIXL_SUCCESS", "NIXL_IN_PROG"}
    /\ ret = "NIXL_SUCCESS" => completed_requests_[i] = Len(binary_notif[i])
    /\ Return(i, ret)
    /\ UNCHANGED <<postNo, completed_requests_>>
    /\ UNCHANGED <<railVars, flight, rcq, recvVars, histVars, connVars, apiVars>>

\* genNotif: a notification without XFER_IDs
GenNotif(i) ==
    /\ genCount[i] < MaxGen
    /\ genCount' = [genCount EXCEPT ![i] = @ + 1]
    /\ ctlq' = ctlq \cup {[agent |-> i, msg |-> 0 - genCount'[i], ids |-> {}, nsubs |-> 0,
                            op |-> "NONE"]}
    /\ UNCHANGED <<handleVars, free_indices_, rrNext, flight, rcq, recvVars, histVars, connVars, apiVars>>

(***************************************************************************)
(* Fabric and the initiator's data-rail completions.                       *)
(***************************************************************************)
\* the fabric carries out a write-with-immediate at the target: it leaves a
\* remote-write completion carrying the XFER_ID on the target's rail
Land(s) ==
    /\ s \in flight
    /\ s.st = "posted"
    /\ s.op = "WRITE"
    /\ flight' = (flight \ {s}) \cup {[s EXCEPT !.st = "landed"]}
    /\ rcq' = [rcq EXCEPT ![s.rail] =
                  Append(@, [xid |-> s.xid, ini |-> s.ini, post |-> s.post, idx |-> s.idx])]
    /\ UNCHANGED <<handleVars, railVars, ctlq, recvVars, histVars, connVars, apiVars>>

\* local completion of a sub-request (a write after it was carried out at the
\* target): the completion callback, increment_completed_requests, runs and
\* the request returns to its pool
LocalComplete(s) ==
    /\ s \in flight
    /\ s.op = "READ" \/ s.st = "landed"
    /\ flight' = flight \ {s}
    /\ completed_requests_' = [completed_requests_ EXCEPT ![s.ini] = @ + 1]
    /\ free_indices_' = [free_indices_ EXCEPT ![s.ini][s.rail] = <<s.slot>> \o @]
    /\ UNCHANGED <<hPc, postNo, descLeft, opType, hasNotif, postRet,
                   total_requests_used_, binary_notif>>
    /\ UNCHANGED <<rrNext, genCount, rcq, ctlq, recvVars, histVars, connVars, apiVars>>

(***************************************************************************)
(* Receiver: XFER_ID tracking (data progress) and notifications (CM thread)*)
(***************************************************************************)
allXferIdsReceived(expected) == \A x \in expected : x \in received_remote_writes_

\* a scan that is satisfied by the first XFER_ID it finds received
all_received_any(n) == \E x \in n.ids : x \in received_remote_writes_

\* the test checkPendingNotifications applies to one queued notification
all_received(n) == \A x \in n.ids : x \in received_remote_writes_

Entry(n, path) ==
    [agent |-> n.agent, msg |-> n.msg, ids |-> n.ids, nsubs |-> n.nsubs, op |-> n.op,
     path |-> path]

\* addReceivedXferId, first block: insert under receiver_tracking_mutex_
AddReceivedXferId(r) ==
    /\ dpPc = "idle"
    /\ rcq[r] # <<>>
    /\ received_remote_writes_' = received_remote_writes_ \cup {Head(rcq[r]).xid}
    /\ rcq' = [rcq EXCEPT ![r] = Tail(@)]
    /\ dpPc' = "check"
    /\ UNCHANGED <<handleVars, railVars, flight, ctlq, pending_notifications_,
                   notifMainList_, cmPc, cmNotif, cmAllRecv, histVars, connVars, apiVars>>

\* checkPendingNotifications: under receiver_tracking_mutex_, move every queued
\* notification whose XFER_IDs have all arrived to notifMainList_
checkPendingNotifications ==
    /\ dpPc = "check"
    /\ notifMainList_' = notifMainList_ \o
           [k \in 1 .. Len(SelectSeq(pending_notifications_, all_received)) |->
               Entry(SelectSeq(pending_notifications_, all_received)[k], "deferred")]
    /\ pending_notifications_' =
           SelectSeq(pending_notifications_, LAMBDA n : ~all_received(n))
    /\ dpPc' = "idle"
    /\ UNCHANGED <<handleVars, railVars, netVars, received_remote_writes_,
                   cmPc, cmNotif, cmAllRecv, histVars, connVars, apiVars>>

\* processNotification up to its decision: a notification without XFER_IDs goes
\* to notifMainList_ at once; otherwise allXferIdsReceived is evaluated under
\* receiver_tracking_mutex_, which is released again before the result is used
ProcessNotification(n) ==
    /\ cmPc = "idle"
    /\ n \in ctlq
    /\ ctlq' = ctlq \ {n}
    /\ IF n.ids = {}
       THEN /\ notifMainList_' = Append(notifMainList_, Entry(n, "regular"))
            /\ UNCHANGED <<cmPc, cmNotif, cmAllRecv>>
       ELSE /\ cmPc' = "commit"
            /\ cmNotif' = n
            /\ cmAllRecv' = allXferIdsReceived(n.ids)
            /\ UNCHANGED notifMainList_
    /\ UNCHANGED <<handleVars, railVars, flight, rcq, received_remote_writes_,
                   pending_notifications_, dpPc, histVars, connVars, apiVars>>

\* processNotification, second half: push to notifMainList_ (notif_mutex_) or
\* queue on pending_notifications_ (receiver_tracking_mutex_)
ProcessNotificationCommit ==
    /\ cmPc = "commit"
    /\ IF cmAllRecv
       THEN /\ notifMainList_' = Append(notifMainList_, Entry(cmNotif, "immediate"))
            /\ UNCHANGED pending_notifications_
       ELSE /\ pending_notifications_' = Append(pending_notifications_, cmNotif)
            /\ UNCHANGED notifMainList_
    /\ cmPc' = "idle"
    /\ cmNotif' = NoNotif
    /\ cmAllRecv' = FALSE
    /\ UNCHANGED <<handleVars, railVars, netVars, received_remote_writes_, dpPc, histVars, connVars, apiVars>>

\* occurrences of (agent, message) key k in a list of notifications
CountKey(s, k) == Cardinality({j \in 1 .. Len(s) : <<s[j].agent, s[j].msg>> = k})

\* getNotifs that copies the list out and does not clear it
GetNotifs_noClear ==
    /\ notifMainList_ # <<>>
    /\ delivered' = [k \in DOMAIN delivered |-> delivered[k] + CountKey(notifMainList_, k)]
    /\ UNCHANGED <<handleVars, railVars, netVars, recvVars, xidUses, connVars, apiVars>>

\* getNotifs: under notif_mutex_, hand the whole list to the caller and clear it.
\* On an empty list the call answers NIXL_IN_PROG and changes nothing.
GetNotifs ==
    /\ notifMainList_ # <<>>
    /\ delivered' = [k \in DOMAIN delivered |-> delivered[k] + CountKey(notifMainList_, k)]
    /\ notifMainList_' = <<>>
    /\ UNCHANGED <<handleVars, railVars, netVars, received_remote_writes_,
                   pending_notifications_, cmPc, cmNotif, cmAllRecv, dpPc, xidUses, connVars, apiVars>>

Next ==
    \/ \E i \in Initiators, nd \in 1 .. MaxDescs, op \in {"WRITE", "READ"}, notif \in BOOLEAN :
           PostBegin(i, nd, op, notif)
    \/ \E i \in Initiators : PostInit(i)
    \/ \E i \in Initiators, md \in {"ok", "null", "mismatch"}, sz \in Sizes,
          nOk \in 0 .. NumDataRails : PostDesc(i, md, sz, nOk)
    \/ \E i \in Initiators, ret \in {"NIXL_SUCCESS", "NIXL_IN_PROG"} : PostFinish(i, ret)
    \/ \E i \in Initiators : GenNotif(i)
    \/ \E s \in flight : Land(s)
    \/ \E s \in flight : LocalComplete(s)
    \/ \E r \in Rails : AddReceivedXferId(r)
    \/ checkPendingNotifications
    \/ \E n \in ctlq : ProcessNotification(n)
    \/ ProcessNotificationCommit
    \/ GetNotifs

Spec == Init /\ [][Next]_vars

\* The fabric carries out what was posted, the receiver's CM thread and data
\* progress keep running, and the target keeps calling getNotifs.
FairSpec ==
    /\ Spec
    /\ WF_vars(\E s \in flight : Land(s))
    /\ WF_vars(\E s \in flight : LocalComplete(s))
    /\ WF_vars(\E r \in Rails : AddReceivedXferId(r))
    /\ WF_vars(checkPendingNotifications)
    /\ WF_vars(\E n \in ctlq : ProcessNotification(n))
    /\ WF_vars(ProcessNotificationCommit)
    /\ WF_vars(GetNotifs)

\* createAgentConnection that takes the index after the push_back as it is
createAgentConnection_sizeIndex(a) ==
    /\ agent_names_' = Append(agent_names_, a)
    /\ connections_' = [connections_ EXCEPT ![a] =
                           [overall_state_ |-> "DISCONNECTED",
                            agent_index_ |-> Len(agent_names_) + 1]]

(***************************************************************************)
(* Connection management: user thread calls and the CM thread.             *)
(***************************************************************************)
\* createAgentConnection: a fresh connection object in its initial state,
\* indexed by its position in agent_names_ (the vector only grows)
createAgentConnection(a) ==
    /\ agent_names_' = Append(agent_names_, a)
    /\ connections_' = [connections_ EXCEPT ![a] =
                           [overall_state_ |-> "DISCONNECTED",
                            agent_index_ |-> Len(agent_names_)]]

\* loadRemoteConnInfo under connection_state_mutex_; info is the state of the
\* blob passed in
LoadRemoteConnInfo(a, info) ==
    /\ uPc = "idle"
    /\ connection_state_mutex_ # "held"
    /\ IF info = "empty"
       THEN /\ connRet' = "NIXL_ERR_INVALID_PARAM"
            /\ UNCHANGED <<agent_names_, connections_>>
       ELSE /\ Len(agent_names_) < MaxLoads
            /\ createAgentConnection(a)
            /\ connRet' = "NIXL_SUCCESS"
    /\ UNCHANGED <<connection_state_mutex_, uPc, uAgent, reqs, acks, peerUp, xferVars, apiVars>>

\* connect: returns at once on a CONNECTED entry; otherwise it destroys its
\* lock_guard by hand and calls establishConnection, which takes
\* connection_state_mutex_ for its whole body, sends CONNECTION_REQ on control
\* rail 0 (sent tells whether postControlMessage succeeded) and blocks in
\* cv_.wait.  overall_state_ is not written anywhere on this path.  When
\* connect's scope ends after establishConnection has returned, the
\* lock_guard's destructor runs a second time on a mutex the thread does not
\* hold: the mutex ends up free or broken (m).
Connect(a, sent, m) ==
    /\ uPc = "idle"
    /\ connection_state_mutex_ # "held"
    /\ IF connections_[a] # NoConn /\ connections_[a].overall_state_ = "CONNECTED"
       THEN /\ connRet' = "NIXL_SUCCESS"
            /\ sent /\ m = "free"
            /\ UNCHANGED <<connection_state_mutex_, uPc, uAgent, reqs>>
       ELSE IF connections_[a] = NoConn
       THEN /\ connRet' = "NIXL_ERR_NOT_FOUND"
            /\ sent
            /\ connection_state_mutex_' = m
            /\ UNCHANGED <<uPc, uAgent, reqs>>
       ELSE IF ~sent
       THEN /\ connRet' = "NIXL_ERR_BACKEND"
            /\ connection_state_mutex_' = m
            /\ UNCHANGED <<uPc, uAgent, reqs>>
       ELSE /\ reqs' = reqs \cup {[to |-> a, agent_idx |-> connections_[a].agent_index_]}
            /\ uPc' = "wait"
            /\ uAgent' = a
            /\ connection_state_mutex_' = "held"
            /\ m = "free"
            /\ UNCHANGED connRet
    /\ UNCHANGED <<agent_names_, connections_, acks, peerUp, xferVars, apiVars>>

\* establishConnection leaves cv_.wait: the predicate (CONNECTED or FAILED)
\* holds.  The wait has no timeout.  connect then looks the agent up again and
\* its scope ends (second run of the lock_guard destructor, outcome m).
EstablishConnectionWake(m) ==
    /\ uPc = "wait"
    /\ connections_[uAgent].overall_state_ \in {"CONNECTED", "FAILED"}
    /\ connRet' = IF connections_[uAgent].overall_state_ = "FAILED" THEN "NIXL_ERR_BACKEND"
                  ELSE IF connections_[uAgent] = NoConn THEN "NIXL_ERR_NOT_FOUND"
                  ELSE "NIXL_SUCCESS"
    /\ uPc' = "idle"
    /\ uAgent' = ""
    /\ connection_state_mutex_' = m
    /\ UNCHANGED <<agent_names_, connections_, reqs, acks, peerUp, xferVars, apiVars>>

\* disconnect under connection_state_mutex_: DISCONNECT_REQ is sent fire and
\* forget, the address-vector entries are removed (cleaned tells whether that
\* succeeded), overall_state_ is set to DISCONNECTED and the entry is erased
Disconnect(a, cleaned) ==
    /\ uPc = "idle"
    /\ connection_state_mutex_ # "held"
    /\ IF connections_[a] = NoConn
       THEN /\ connRet' = "NIXL_ERR_NOT_FOUND"
            /\ cleaned
            /\ UNCHANGED connections_
       ELSE IF connections_[a].overall_state_ = "DISCONNECTED"
       THEN /\ connRet' = "NIXL_SUCCESS"
            /\ cleaned
            /\ UNCHANGED connections_
       ELSE IF ~cleaned
       THEN /\ connRet' = "NIXL_ERR_BACKEND"
            /\ UNCHANGED connections_
       ELSE /\ connRet' = "NIXL_SUCCESS"
            /\ connections_' = [connections_ EXCEPT ![a] = NoConn]
    /\ UNCHANGED <<agent_names_, connection_state_mutex_, uPc, uAgent, reqs, acks,
                   peerUp, xferVars, apiVars>>

\* the peer's CM thread runs processConnectionRequest: it inserts the
\* initiator's addresses and answers with CONNECTION_ACK carrying the same
\* agent_idx; when a step fails (ok = FALSE) no ACK is sent
PeerProcessConnectionRequest(r, ok) ==
    /\ r \in reqs
    /\ peerUp[r.to]
    /\ reqs' = reqs \ {r}
    /\ acks' = IF ok THEN acks \cup {[from |-> r.to, agent_idx |-> r.agent_idx]} ELSE acks
    /\ UNCHANGED <<agent_names_, connections_, connection_state_mutex_, uPc, uAgent,
                   connRet, peerUp, xferVars, apiVars>>

\* the remote peer vanishes: it processes nothing from then on
PeerVanish(a) ==
    /\ peerUp[a]
    /\ peerUp' = [peerUp EXCEPT ![a] = FALSE]
    /\ UNCHANGED <<agent_names_, connections_, connection_state_mutex_, uPc, uAgent,
                   connRet, reqs, acks, xferVars, apiVars>>

\* the CM thread runs processConnectionAck: the connection found through
\* agent_names_[agent_idx] becomes CONNECTED, whatever its state was, and the
\* waiters are notified.  (An ACK is always consumed before the connect that
\* caused it returns, so the entry exists when the ACK is processed.)
ProcessConnectionAck(k) ==
    /\ k \in acks
    /\ connections_[agent_names_[k.agent_idx + 1]] # NoConn
    /\ connections_' = [connections_ EXCEPT
                           ![agent_names_[k.agent_idx + 1]].overall_state_ = "CONNECTED"]
    /\ acks' = acks \ {k}
    /\ UNCHANGED <<agent_names_, connection_state_mutex_, uPc, uAgent, connRet, reqs,
                   peerUp, xferVars, apiVars>>

NextConn ==
    \/ \E a \in Peers, info \in {"empty", "ok"} : LoadRemoteConnInfo(a, info)
    \/ \E a \in Peers, sent \in BOOLEAN, m \in {"free", "broken"} : Connect(a, sent, m)
    \/ \E m \in {"free", "broken"} : EstablishConnectionWake(m)
    \/ \E a \in Peers, cleaned \in BOOLEAN : Disconnect(a, cleaned)
    \/ \E r \in reqs, ok \in BOOLEAN : PeerProcessConnectionRequest(r, ok)
    \/ \E a \in Peers : PeerVanish(a)
    \/ \E k \in acks : ProcessConnectionAck(k)

SpecConn == Init /\ [][NextConn]_vars

\* The CM thread and the user thread keep running, and a peer that is up
\* keeps processing the requests it receives.
FairSpecConn ==
    /\ SpecConn
    /\ WF_vars(\E k \in acks : ProcessConnectionAck(k))
    /\ WF_vars(\E m \in {"free", "broken"} : EstablishConnectionWake(m))
    /\ WF_vars(\E r \in reqs, ok \in BOOLEAN : PeerProcessConnectionRequest(r, ok))

(***************************************************************************)
(* prepXfer of the multi-rail engine and the descriptor lists postXfer     *)
(* walks.                                                                  *)
(***************************************************************************)
\* prepXfer(operation, local, remote, remote_agent, handle): nl and nr are
\* local.descCount() and remote.descCount().  The only test is the lookup of
\* the agent in connections_; on success a new nixlLibfabricBackendH is
\* handed out.  The lists are not looked at.
PrepXfer(a, nl, nr) ==
    /\ uPc = "idle"
    /\ IF connections_[a] = NoConn
       THEN prepRet' = "NIXL_ERR_NOT_FOUND" /\ prepH' = NoHandle
       ELSE prepRet' = "NIXL_SUCCESS" /\ prepH' = [agent |-> a, nl |-> nl, nr |-> nr]
    /\ UNCHANGED <<remoteOob, connVars, xferVars, moVars, epVars, extVars>>

\* postXfer on the prepared handle with the lists given to prepXfer, once the
\* connection is CONNECTED: the posting loop runs desc_idx over
\* 0 .. local.descCount() - 1 and reads remote[desc_idx] in every iteration.
PostXferIndex ==
    /\ uPc = "idle"
    /\ prepH # NoHandle
    /\ connections_[prepH.agent] # NoConn
    /\ connections_[prepH.agent].overall_state_ = "CONNECTED"
    /\ remoteOob' = (remoteOob \/ \E desc_idx \in 0 .. prepH.nl - 1 : desc_idx >= prepH.nr)
    /\ UNCHANGED <<prepRet, prepH, connVars, xferVars, moVars, epVars, extVars>>

NextPrep ==
    \/ NextConn
    \/ \E a \in Peers, nl \in DescCounts, nr \in DescCounts : PrepXfer(a, nl, nr)
    \/ PostXferIndex

SpecPrep == Init /\ [][NextPrep]_vars

(***************************************************************************)
(* Engine of engines (nixlUcxMoEngine).  The sub-engines are nixlUcxEngine  *)
(* objects; what a call into them returns is an input (subOk).             *)
(***************************************************************************)
\* setEngCnt: _engineCnt = max(_gpuCnt, num_host)
engineCnt == IF gpuCnt > num_ucx_engines THEN gpuCnt ELSE num_ucx_engines

\* getEngIdx with the assert()s compiled out: -1 for a VRAM device that is not
\* one of the GPUs and for any device id beyond the engines
getEngIdx(type, devId) ==
    IF type = "VRAM_SEG" /\ ~(devId < gpuCnt) THEN 0 - 1
    ELSE IF type \notin {"VRAM_SEG", "DRAM_SEG"} THEN 0 - 1
    ELSE IF devId < engineCnt THEN devId ELSE 0 - 1

\* whether an assert() of getEngIdx fails
getEngIdxAsserts(type, devId) ==
    \/ type = "VRAM_SEG" /\ ~(devId < gpuCnt)
    \/ type \in {"VRAM_SEG", "DRAM_SEG"} /\ ~(devId < engineCnt)

\* result of an engine-of-engines call
MoResult(ret, out, sub) ==
    /\ moRet' = ret
    /\ moOut' = out
    /\ moSub' = sub

\* loadRemoteConnInfo: refused for an agent already in remoteConnMap; blob is
\* the state of the serialized info, sz the engine count it carries
MoLoadRemoteConnInfo(a, blob, sz, subOk) ==
    /\ moRet # "ABORT"
    /\ IF remoteConnMap[a] # NoMoConn
       THEN MoResult("NIXL_ERR_INVALID_PARAM", "none", FALSE) /\ UNCHANGED <<remoteConnMap, moMds>>
       ELSE IF blob # "ok"
       THEN MoResult("NIXL_ERR_MISMATCH", "none", FALSE) /\ UNCHANGED <<remoteConnMap, moMds>>
       ELSE IF ~subOk
       THEN MoResult("NIXL_ERR_BACKEND", "none", TRUE) /\ UNCHANGED <<remoteConnMap, moMds>>
       ELSE /\ MoResult("NIXL_SUCCESS", "none", TRUE)
            /\ remoteConnMap' = [remoteConnMap EXCEPT ![a] = [num_engines |-> sz]]
            /\ UNCHANGED moMds
    /\ UNCHANGED <<xferVars, connVars, prepVars, epVars, extVars>>

\* connect: every sub-engine connects to every remote engine of the agent
MoConnect_noLookup(a, subOk) ==
    /\ moRet # "ABORT"
    /\ MoResult(IF subOk THEN "NIXL_SUCCESS" ELSE "NIXL_ERR_BACKEND", "none", TRUE)
    /\ UNCHANGED <<remoteConnMap, moMds, xferVars, connVars, prepVars, epVars, extVars>>

MoConnect(a, subOk) ==
    /\ moRet # "ABORT"
    /\ IF remoteConnMap[a] = NoMoConn
       THEN MoResult("NIXL_ERR_NOT_FOUND", "none", FALSE)
       ELSE MoResult(IF subOk THEN "NIXL_SUCCESS" ELSE "NIXL_ERR_BACKEND", "none", TRUE)
    /\ UNCHANGED <<remoteConnMap, moMds, xferVars, connVars, prepVars, epVars, extVars>>

\* disconnect: the sub-engines disconnect, then the agent is erased
MoDisconnect(a, subOk) ==
    /\ moRet # "ABORT"
    /\ IF remoteConnMap[a] = NoMoConn
       THEN MoResult("NIXL_ERR_NOT_FOUND", "none", FALSE) /\ UNCHANGED <<remoteConnMap, moMds>>
       ELSE IF ~subOk
       THEN MoResult("NIXL_ERR_BACKEND", "none", TRUE) /\ UNCHANGED <<remoteConnMap, moMds>>
       ELSE /\ MoResult("NIXL_SUCCESS", "none", TRUE)
            /\ remoteConnMap' = [remoteConnMap EXCEPT ![a] = NoMoConn]
            /\ UNCHANGED moMds
    /\ UNCHANGED <<xferVars, connVars, prepVars, epVars, extVars>>

\* registerMem: the device id selects the sub-engine.  asserts tells whether
\* the build keeps assert(); subSt is what the sub-engine's registerMem and
\* getPublicData answer.
MoRegisterMem(type, devId, asserts, subSt) ==
    /\ moRet # "ABORT"
    /\ IF asserts /\ getEngIdxAsserts(type, devId)
       THEN MoResult("ABORT", "none", FALSE)
       ELSE IF getEngIdx(type, devId) < 0
       THEN MoResult("NIXL_ERR_INVALID_PARAM", "none", FALSE)
       ELSE MoResult(subSt, IF subSt = "NIXL_SUCCESS" THEN "md" ELSE "none", TRUE)
    /\ moMds' = IF (asserts /\ getEngIdxAsserts(type, devId)) \/ getEngIdx(type, devId) < 0
                    \/ subSt # "NIXL_SUCCESS"
                 THEN moMds ELSE moMds \cup {getEngIdx(type, devId)}
    /\ UNCHANGED <<remoteConnMap, xferVars, connVars, prepVars, epVars, extVars>>

\* deregisterMem of a private metadata of sub-engine eidx
MoDeregisterMem(eidx) ==
    /\ moRet # "ABORT"
    /\ eidx \in moMds
    /\ moMds' = moMds \ {eidx}
    /\ MoResult("NIXL_SUCCESS", "none", TRUE)
    /\ UNCHANGED <<remoteConnMap, xferVars, connVars, prepVars, epVars, extVars>>

\* prepXfer: ls and rs are the lengths of the local and remote descriptors,
\* ridx the engine index in the remote metadata; the local descriptors carry
\* private metadata that registerMem handed out
MoPrepXfer(op, a, ls, rs, ridx, subOk) ==
    /\ moRet # "ABORT"
    /\ ls # <<>> => moMds # {}
    /\ IF Len(ls) # Len(rs) \/ op \notin {"NIXL_READ", "NIXL_WRITE"}
          \/ remoteConnMap[a] = NoMoConn
       THEN MoResult("NIXL_ERR_INVALID_PARAM", "none", FALSE)
       ELSE IF \E k \in 1 .. Len(ls) :
                  ~(ridx < remoteConnMap[a].num_engines) \/ ls[k] # rs[k]
       THEN MoResult("NIXL_ERR_INVALID_PARAM", "none", FALSE)
       ELSE IF ls = <<>>
       THEN MoResult("NIXL_SUCCESS", "handle", FALSE)
       ELSE IF ~subOk
       THEN MoResult("NIXL_ERR_INVALID_PARAM", "none", TRUE)
       ELSE MoResult("NIXL_SUCCESS", "handle", TRUE)
    /\ UNCHANGED <<remoteConnMap, moMds, xferVars, connVars, prepVars, epVars, extVars>>

\* descriptor lists given to prepXfer, as sequences of lengths
DescLists == UNION {[1 .. n -> 0 .. 1] : n \in DescCounts}

NextMoConn ==
    \/ \E a \in Peers, blob \in {"ok", "bad"}, sz \in 1 .. MaxRemoteEngines,
          subOk \in BOOLEAN : MoLoadRemoteConnInfo(a, blob, sz, subOk)
    \/ \E a \in Peers, subOk \in BOOLEAN : MoConnect(a, subOk)
    \/ \E a \in Peers, subOk \in BOOLEAN : MoDisconnect(a, subOk)

NextMo ==
    \/ NextMoConn
    \/ \E type \in {"DRAM_SEG", "VRAM_SEG"}, devId \in DevIds, asserts \in BOOLEAN,
          subSt \in {"NIXL_SUCCESS", "NIXL_ERR_BACKEND"} :
          MoRegisterMem(type, devId, asserts, subSt)
    \/ \E eidx \in moMds : MoDeregisterMem(eidx)
    \/ \E op \in {"NIXL_READ", "NIXL_WRITE"}, a \in Peers, ls \in DescLists,
          rs \in DescLists, ridx \in 0 .. MaxRemoteEngines - 1, subOk \in BOOLEAN :
          MoPrepXfer(op, a, ls, rs, ridx, subOk)

SpecMo == Init /\ [][NextMo]_vars

\* connection calls of both engines side by side
NextApi == NextConn \/ NextMoConn

SpecApi == Init /\ [][NextApi]_vars

(***************************************************************************)
(* UCX endpoint (nixlUcxEp) and the translation of transport statuses.     *)
(***************************************************************************)
\* ucs_status_t values the transport hands back: the ones the translation
\* names and four it does not
UcsErrors == {"UCS_ERR_BUSY", "UCS_ERR_NOT_CONNECTED", "UCS_ERR_CONNECTION_RESET",
              "UCS_ERR_ENDPOINT_TIMEOUT", "UCS_ERR_INVALID_PARAM", "UCS_ERR_CANCELED",
              "UCS_ERR_NO_MEMORY", "UCS_ERR_IO_ERROR", "UCS_ERR_UNREACHABLE",
              "UCS_ERR_NO_MESSAGE"}
UcsStatuses == {"UCS_OK", "UCS_INPROGRESS"} \cup UcsErrors

\* what ucp_ep_close_nbx hands back: no request, an error pointer carrying a
\* status, or a request to be freed
CloseResults == {"NULL_REQUEST", "REQUEST_PTR"} \cup UcsErrors

\* the translation with UCS_ERR_BUSY left to the default branch
ucx_status_to_nixl_busyDefault(status) ==
    IF status = "UCS_OK" THEN "NIXL_SUCCESS"
    ELSE IF status \in {"UCS_INPROGRESS"} THEN "NIXL_IN_PROG"
    ELSE IF status \in {"UCS_ERR_NOT_CONNECTED", "UCS_ERR_CONNECTION_RESET",
                        "UCS_ERR_ENDPOINT_TIMEOUT"} THEN "NIXL_ERR_REMOTE_DISCONNECT"
    ELSE IF status = "UCS_ERR_INVALID_PARAM" THEN "NIXL_ERR_INVALID_PARAM"
    ELSE IF status = "UCS_ERR_CANCELED" THEN "NIXL_ERR_CANCELED"
    ELSE "NIXL_ERR_BACKEND"

ucx_status_to_nixl(status) ==
    IF status = "UCS_OK" THEN "NIXL_SUCCESS"
    ELSE IF status \in {"UCS_INPROGRESS", "UCS_ERR_BUSY"} THEN "NIXL_IN_PROG"
    ELSE IF status \in {"UCS_ERR_NOT_CONNECTED", "UCS_ERR_CONNECTION_RESET",
                        "UCS_ERR_ENDPOINT_TIMEOUT"} THEN "NIXL_ERR_REMOTE_DISCONNECT"
    ELSE IF status = "UCS_ERR_INVALID_PARAM" THEN "NIXL_ERR_INVALID_PARAM"
    ELSE IF status = "UCS_ERR_CANCELED" THEN "NIXL_ERR_CANCELED"
    ELSE "NIXL_ERR_BACKEND"

\* setState: the new state differs from the old one at both call sites
setState(e, new_state) == epState' = [epState EXCEPT ![e] = new_state]

\* constructor: ucp_ep_create answers st; anything but UCS_OK makes the
\* constructor throw, and no object exists afterwards
EpCreate(e, st) ==
    /\ epLive[e] = "none"
    /\ epUcs' = [epUcs EXCEPT ![e] = st]
    /\ epNixl' = [epNixl EXCEPT ![e] = ucx_status_to_nixl(st)]
    /\ IF ucx_status_to_nixl(st) = "NIXL_SUCCESS"
       THEN /\ setState(e, "CONNECTED")
            /\ eph' = [eph EXCEPT ![e] = "ep"]
            /\ epLive' = [epLive EXCEPT ![e] = "live"]
       ELSE UNCHANGED <<epState, eph, epLive>>
    /\ UNCHANGED <<epRet, epDiscRet, epClose, epErrs>>
    /\ UNCHANGED <<xferVars, connVars, prepVars, moVars, extVars>>

\* err_cb that closes the endpoint whatever its state
ErrCb_noStateCheck(e) ==
    /\ epLive[e] = "live"
    /\ epErrs[e] < MaxErrCbs
    /\ epErrs' = [epErrs EXCEPT ![e] = @ + 1]
    /\ setState(e, "FAILED")
    /\ epClose' = [epClose EXCEPT ![e] = Append(@, "FORCE")]
    /\ UNCHANGED <<epLive, eph, epUcs, epNixl, epRet, epDiscRet>>
    /\ UNCHANGED <<xferVars, connVars, prepVars, moVars, extVars>>

\* err_cb: the transport reports an error on the endpoint (the handle it
\* passes is eph).  Only a CONNECTED endpoint reacts: it becomes FAILED and
\* is closed with UCP_EP_CLOSE_MODE_FORCE.
ErrCb(e) ==
    /\ epLive[e] = "live"
    /\ epErrs[e] < MaxErrCbs
    /\ epErrs' = [epErrs EXCEPT ![e] = @ + 1]
    /\ IF epState[e] = "CONNECTED"
       THEN /\ setState(e, "FAILED")
            /\ epClose' = [epClose EXCEPT ![e] = Append(@, "FORCE")]
       ELSE UNCHANGED <<epState, epClose>>
    /\ UNCHANGED <<epLive, eph, epUcs, epNixl, epRet, epDiscRet>>
    /\ UNCHANGED <<xferVars, connVars, prepVars, moVars, extVars>>

\* closeImpl that hands a FAILED endpoint to ucp_ep_close_nbx as well
closeImpl_closesFailed(e, res) ==
    /\ UNCHANGED epState
    /\ IF epState[e] \in {"NULL", "DISCONNECTED"}
       THEN /\ epRet' = [epRet EXCEPT ![e] = "NIXL_SUCCESS"]
            /\ UNCHANGED <<eph, epClose, epUcs, epNixl>>
       ELSE /\ epClose' = [epClose EXCEPT ![e] = Append(@, "FLAGS_0")]
            /\ eph' = [eph EXCEPT ![e] = "null"]
            /\ IF res \in UcsErrors
               THEN /\ epUcs' = [epUcs EXCEPT ![e] = res]
                    /\ epNixl' = [epNixl EXCEPT ![e] = ucx_status_to_nixl(res)]
                    /\ epRet' = [epRet EXCEPT ![e] = ucx_status_to_nixl(res)]
               ELSE /\ epRet' = [epRet EXCEPT ![e] = "NIXL_SUCCESS"]
                    /\ UNCHANGED <<epUcs, epNixl>>

\* closeImpl(flags): res is what ucp_ep_close_nbx answers when it is called.
\* No branch assigns state.
closeImpl(e, res) ==
    /\ UNCHANGED epState
    /\ IF epState[e] \in {"NULL", "DISCONNECTED"}
       THEN /\ epRet' = [epRet EXCEPT ![e] = "NIXL_SUCCESS"]
            /\ UNCHANGED <<eph, epClose, epUcs, epNixl>>
       ELSE IF epState[e] = "FAILED"
       THEN /\ eph' = [eph EXCEPT ![e] = "null"]
            /\ epRet' = [epRet EXCEPT ![e] = "NIXL_ERR_REMOTE_DISCONNECT"]
            /\ UNCHANGED <<epClose, epUcs, epNixl>>
       ELSE /\ epClose' = [epClose EXCEPT ![e] = Append(@, "FLAGS_0")]
            /\ eph' = [eph EXCEPT ![e] = "null"]
            /\ IF res \in UcsErrors
               THEN /\ epUcs' = [epUcs EXCEPT ![e] = res]
                    /\ epNixl' = [epNixl EXCEPT ![e] = ucx_status_to_nixl(res)]
                    /\ epRet' = [epRet EXCEPT ![e] = ucx_status_to_nixl(res)]
               ELSE /\ epRet' = [epRet EXCEPT ![e] = "NIXL_SUCCESS"]
                    /\ UNCHANGED <<epUcs, epNixl>>

\* disconnect_nb: closeImpl(0); a remote disconnect is reported as success
disconnect_nb(e, res) ==
    /\ closeImpl(e, res)
    /\ epDiscRet' = [epDiscRet EXCEPT ![e] =
                        IF epRet'[e] = "NIXL_ERR_REMOTE_DISCONNECT"
                        THEN "NIXL_SUCCESS" ELSE epRet'[e]]

\* destructor: the only caller of disconnect_nb; the object is gone afterwards
EpDestroy(e, res) ==
    /\ epLive[e] = "live"
    /\ disconnect_nb(e, res)
    /\ epLive' = [epLive EXCEPT ![e] = "gone"]
    /\ UNCHANGED epErrs
    /\ UNCHANGED <<xferVars, connVars, prepVars, moVars, extVars>>

NextEp ==
    \/ \E e \in Eps, st \in UcsStatuses : EpCreate(e, st)
    \/ \E e \in Eps : ErrCb(e)
    \/ \E e \in Eps, res \in CloseResults : EpDestroy(e, res)

SpecEp == Init /\ [][NextEp]_vars

\* disconnect_nb called on a live endpoint by its owner, the object staying
\* alive; the calls are counted by the closes they may add
EpDisconnect(e, res) ==
    /\ epLive[e] = "live"
    /\ Len(epClose[e]) < MaxEpCloses
    /\ disconnect_nb(e, res)
    /\ UNCHANGED <<epLive, epErrs>>
    /\ UNCHANGED <<xferVars, connVars, prepVars, moVars, extVars>>

NextEpDisc ==
    \/ NextEp
    \/ \E e \in Eps, res \in CloseResults : EpDisconnect(e, res)

SpecEpDisc == Init /\ [][NextEpDisc]_vars

(***************************************************************************)
(* postXfer / checkXfer of the engine of engines on one request handle.    *)
(* The sub-engines are nixlUcxEngine objects: what their postXfer,         *)
(* checkXfer and genNotif answer is an input, kept consistent with xSub.   *)
(***************************************************************************)
SubRets == {"NIXL_SUCCESS", "NIXL_IN_PROG", "NIXL_ERR_BACKEND"}

\* first element at which the loop over the dlMatrix returns early
\* (one past the last element when it runs to the end)
FirstErr(bad) == IF bad = {} THEN Cardinality(MoElems) + 1
                 ELSE CHOOSE m \in bad : \A n \in bad : m <= n

\* the sub-engines after the posting loop with answers rets
PostedSubs(rets) ==
    LET stop == FirstErr({m \in MoElems : rets[m] = "NIXL_ERR_BACKEND"})
    IN  [m \in MoElems |->
            IF m >= stop THEN IF m = stop THEN "idle" ELSE xSub[m]
            ELSE IF rets[m] = "NIXL_IN_PROG" THEN "flying" ELSE "done"]

\* the in_progress flags after the posting loop: set on NIXL_IN_PROG, never
\* cleared by postXfer
PostedFlags(rets) ==
    LET stop == FirstErr({m \in MoElems : rets[m] = "NIXL_ERR_BACKEND"})
    IN  [m \in MoElems |->
            IF m < stop /\ rets[m] = "NIXL_IN_PROG" THEN TRUE ELSE in_progress[m]]

\* postXfer that sends the notification although transfers are in progress
MoPostXfer_piggyback(wantNotif, rets, notifOk) ==
    /\ xPost < MaxMoPosts
    /\ \A m \in MoElems : xSub[m] # "flying"
    /\ xPost' = xPost + 1
    /\ xWant' = [xWant EXCEPT ![xPost + 1] = wantNotif]
    /\ xSub' = PostedSubs(rets)
    /\ in_progress' = PostedFlags(rets)
    /\ IF \E m \in MoElems : rets[m] = "NIXL_ERR_BACKEND"
       THEN xRet' = "NIXL_ERR_BACKEND" /\ UNCHANGED <<notifNeed, notifMsg, xSent>>
       ELSE /\ UNCHANGED <<notifNeed, notifMsg>>
            /\ xSent' = IF wantNotif /\ notifOk
                         THEN [xSent EXCEPT ![xPost + 1] = @ + 1] ELSE xSent
            /\ xRet' = IF wantNotif /\ ~notifOk THEN "NIXL_ERR_BACKEND"
                        ELSE IF \E m \in MoElems : rets[m] = "NIXL_IN_PROG"
                        THEN "NIXL_IN_PROG" ELSE "NIXL_SUCCESS"
    /\ xPosted' = xRet'
    /\ UNCHANGED xChecks
    /\ UNCHANGED <<xferVars, connVars, prepVars, moVars, epVars, relVars, lifeVars, lockVars, mapVars, thrVars, ctlVars, mdVars, lateVars>>

\* postXfer on a handle whose earlier transfers are over: the p-th call
\* carries message p.  rets are the sub-engines' answers, notifOk whether
\* genNotif of sub-engine 0 succeeds.
MoPostXfer(wantNotif, rets, notifOk) ==
    /\ xPost < MaxMoPosts
    /\ \A m \in MoElems : xSub[m] # "flying"
    /\ xPost' = xPost + 1
    /\ xWant' = [xWant EXCEPT ![xPost + 1] = wantNotif]
    /\ xSub' = PostedSubs(rets)
    /\ in_progress' = PostedFlags(rets)
    /\ IF \E m \in MoElems : rets[m] = "NIXL_ERR_BACKEND"
       THEN xRet' = "NIXL_ERR_BACKEND" /\ UNCHANGED <<notifNeed, notifMsg, xSent>>
       ELSE IF \E m \in MoElems : rets[m] = "NIXL_IN_PROG"
       THEN /\ notifNeed' = (notifNeed \/ wantNotif)
            /\ notifMsg' = IF wantNotif THEN xPost + 1 ELSE notifMsg
            /\ xRet' = "NIXL_IN_PROG"
            /\ UNCHANGED xSent
       ELSE /\ UNCHANGED <<notifNeed, notifMsg>>
            /\ xSent' = IF wantNotif /\ notifOk
                         THEN [xSent EXCEPT ![xPost + 1] = @ + 1] ELSE xSent
            /\ xRet' = IF wantNotif /\ ~notifOk THEN "NIXL_ERR_BACKEND" ELSE "NIXL_SUCCESS"
    /\ xPosted' = xRet'
    /\ UNCHANGED xChecks
    /\ UNCHANGED <<xferVars, connVars, prepVars, moVars, epVars, relVars, lifeVars, lockVars, mapVars, thrVars, ctlVars, mdVars, lateVars>>

\* a sub-engine's transfer completes
MoSubComplete(m) ==
    /\ xSub[m] = "flying"
    /\ xSub' = [xSub EXCEPT ![m] = "done"]
    /\ UNCHANGED <<in_progress, notifNeed, notifMsg, xRet, xPost, xWant, xPosted, xChecks, xSent>>
    /\ UNCHANGED <<xferVars, connVars, prepVars, moVars, epVars, relVars, lifeVars, lockVars, mapVars, thrVars, ctlVars, mdVars, lateVars>>

\* checkXfer: errAt is the element whose sub-engine checkXfer answers an
\* error (0: none does); the others answer by the state of their transfer.
\* notifNeed is read and never written.
MoCheckXfer(errAt, notifOk) ==
    /\ xPost > 0
    /\ xChecks < MaxMoChecks
    /\ xChecks' = xChecks + 1
    /\ LET stop == FirstErr({m \in MoElems : in_progress[m] /\ m = errAt})
           out_ret == IF \E m \in MoElems : in_progress[m] /\ xSub[m] = "flying"
                      THEN "NIXL_IN_PROG" ELSE "NIXL_SUCCESS"
       IN  /\ in_progress' = [m \in MoElems |->
                                 IF m < stop /\ xSub[m] # "flying" THEN FALSE
                                 ELSE in_progress[m]]
           /\ IF stop <= Cardinality(MoElems)
              THEN xRet' = "NIXL_ERR_BACKEND" /\ UNCHANGED xSent
              ELSE IF out_ret = "NIXL_SUCCESS" /\ notifNeed
              THEN IF notifOk
                   THEN /\ xSent' = [xSent EXCEPT ![notifMsg] = @ + 1]
                        /\ xRet' = out_ret
                   ELSE xRet' = "NIXL_ERR_BACKEND" /\ UNCHANGED xSent
              ELSE xRet' = out_ret /\ UNCHANGED xSent
    /\ UNCHANGED <<notifNeed, notifMsg, xSub, xPost, xWant, xPosted>>
    /\ UNCHANGED <<xferVars, connVars, prepVars, moVars, epVars, relVars, lifeVars, lockVars, mapVars, thrVars, ctlVars, mdVars, lateVars>>

NextMoX ==
    \/ \E wantNotif \in BOOLEAN, rets \in [MoElems -> SubRets], notifOk \in BOOLEAN :
           MoPostXfer(wantNotif, rets, notifOk)
    \/ \E m \in MoElems : MoSubComplete(m)
    \/ \E errAt \in {0} \cup MoElems, notifOk \in BOOLEAN : MoCheckXfer(errAt, notifOk)

SpecMoX == Init /\ [][NextMoX]_vars

(***************************************************************************)
(* releaseReqH of the multi-rail engine, next to the transfer path.        *)
(***************************************************************************)
\* releaseReqH on the handle, between postXfer calls: it returns
\* NIXL_SUCCESS and touches neither the handle nor its sub-requests; the
\* framework deletes the handle afterwards, so no post follows on it.
ReleaseReqH(i) ==
    /\ hPc[i] = "ready"
    /\ postNo[i] > 0
    /\ ~released[i]
    /\ released' = [released EXCEPT ![i] = TRUE]
    /\ UNCHANGED <<xferVars, connVars, prepVars, moVars, epVars, moxVars, lifeVars, lockVars, mapVars, thrVars, ctlVars, mdVars, lateVars>>

NextRel ==
    \/ Next
    \/ \E i \in Initiators : ReleaseReqH(i)

SpecRel == Init /\ [][NextRel]_vars

(***************************************************************************)
(* Life of a multi-rail engine: constructor, connect / disconnect of the   *)
(* local agent's own name, the two threads, destructor.  The transport     *)
(* delivers every control message that was posted.                         *)
(***************************************************************************)
othersOfLife == <<xferVars, connVars, prepVars, moVars, epVars, moxVars, relVars, lockVars, mapVars, thrVars, ctlVars, mdVars, lateVars>>

\* constructor: the self-connection is created (DISCONNECTED), then the CM
\* thread and, when enabled (pt), the progress thread are started; sread
\* tells whether control rail 0 supports the blocking completion-queue read
EngineStart(sread, pt) ==
    /\ blocking_cq_sread_supported = "unset"
    /\ blocking_cq_sread_supported' = sread
    /\ selfConn' = "DISCONNECTED"
    /\ cmThread' = "check"
    /\ progressThread' = IF pt THEN "run" ELSE "none"
    /\ UNCHANGED <<selfq, cm_thread_stop_, progress_thread_stop_, sUser, dtor, othersOfLife>>

\* connect(localAgent): nothing treats the own name apart, so the
\* CONNECTION_REQ goes to the engine's own control rail 0 and the caller
\* waits in cv_.wait; on a CONNECTED entry it returns at once
ConnectSelf ==
    /\ dtor = "none" /\ sUser = "idle"
    /\ selfConn = "DISCONNECTED"
    /\ selfq' = Append(selfq, "CONNECTION_REQ")
    /\ sUser' = "wait"
    /\ UNCHANGED <<blocking_cq_sread_supported, selfConn, cmThread, progressThread,
                   cm_thread_stop_, progress_thread_stop_, dtor, othersOfLife>>

\* establishConnection leaves cv_.wait and connect returns
ConnectSelfWake ==
    /\ sUser = "wait"
    /\ selfConn = "CONNECTED"
    /\ sUser' = "idle"
    /\ UNCHANGED <<blocking_cq_sread_supported, selfConn, selfq, cmThread, progressThread,
                   cm_thread_stop_, progress_thread_stop_, dtor, othersOfLife>>

\* disconnect(localAgent): a DISCONNECTED entry is left alone; otherwise no
\* message is sent (own name), the addresses are cleaned up and the entry is
\* erased from connections_
DisconnectSelf ==
    /\ dtor = "none" /\ sUser = "idle"
    /\ selfConn # "NONE"
    /\ selfConn' = IF selfConn = "DISCONNECTED" THEN selfConn ELSE "NONE"
    /\ UNCHANGED <<blocking_cq_sread_supported, selfq, cmThread, progressThread,
                   cm_thread_stop_, progress_thread_stop_, sUser, dtor, othersOfLife>>

\* cmThread, loop condition: while (!cm_thread_stop_.load())
CmThreadCheck ==
    /\ cmThread = "check"
    /\ cmThread' = IF cm_thread_stop_ THEN "exited" ELSE "progress"
    /\ UNCHANGED <<blocking_cq_sread_supported, selfConn, selfq, progressThread,
                   cm_thread_stop_, progress_thread_stop_, sUser, dtor, othersOfLife>>

\* cmThread, loop body: progressAllControlRails.  With the blocking read the
\* thread stays inside until a completion arrives; without it the call
\* returns NIXL_IN_PROG on an empty queue.  A CONNECTION_REQ is answered
\* with a CONNECTION_ACK, a CONNECTION_ACK makes the connection CONNECTED,
\* a DISCONNECT_REQ only ends the read.
CmThreadProgress ==
    /\ cmThread = "progress"
    /\ selfq = <<>> => blocking_cq_sread_supported = "no"
    /\ cmThread' = "check"
    /\ IF selfq = <<>> THEN UNCHANGED <<selfq, selfConn>>
       ELSE /\ selfq' = IF Head(selfq) = "CONNECTION_REQ"
                         THEN Append(Tail(selfq), "CONNECTION_ACK") ELSE Tail(selfq)
            /\ selfConn' = IF Head(selfq) = "CONNECTION_ACK" /\ selfConn # "NONE"
                            THEN "CONNECTED" ELSE selfConn
    /\ UNCHANGED <<blocking_cq_sread_supported, progressThread,
                   cm_thread_stop_, progress_thread_stop_, sUser, dtor, othersOfLife>>

\* progressThread: while (!progress_thread_stop_.load()), never blocking
ProgressThreadCheck ==
    /\ progressThread = "run"
    /\ progress_thread_stop_
    /\ progressThread' = "exited"
    /\ UNCHANGED <<blocking_cq_sread_supported, selfConn, selfq, cmThread,
                   cm_thread_stop_, progress_thread_stop_, sUser, dtor, othersOfLife>>

\* destructor, first part: the stop flags are set
DtorStop ==
    /\ dtor = "none" /\ sUser = "idle"
    /\ blocking_cq_sread_supported # "unset"
    /\ cm_thread_stop_' = TRUE
    /\ progress_thread_stop_' = (progressThread # "none")
    /\ dtor' = "post"
    /\ UNCHANGED <<blocking_cq_sread_supported, selfConn, selfq, cmThread, progressThread,
                   sUser, othersOfLife>>

\* postShutdownCompletion: the DISCONNECT_REQ carrying "SHUTDOWN" is posted
\* to the self-connection's address when connections_ has an entry for
\* localAgent; otherwise an error is logged and nothing is posted
postShutdownCompletion ==
    /\ selfq' = IF selfConn # "NONE" THEN Append(selfq, "DISCONNECT_REQ") ELSE selfq
    /\ UNCHANGED selfConn

\* destructor, second part
DtorPost ==
    /\ dtor = "post"
    /\ postShutdownCompletion
    /\ dtor' = "joinCm"
    /\ UNCHANGED <<blocking_cq_sread_supported, cmThread, progressThread,
                   cm_thread_stop_, progress_thread_stop_, sUser, othersOfLife>>

\* cm_thread_.join() returns
DtorJoinCm ==
    /\ dtor = "joinCm"
    /\ cmThread = "exited"
    /\ dtor' = "joinProgress"
    /\ UNCHANGED <<blocking_cq_sread_supported, selfConn, selfq, cmThread, progressThread,
                   cm_thread_stop_, progress_thread_stop_, sUser, othersOfLife>>

\* progress_thread_.join() returns (when the thread was started); cleanup
DtorJoinProgress ==
    /\ dtor = "joinProgress"
    /\ progressThread \in {"none", "exited"}
    /\ dtor' = "done"
    /\ UNCHANGED <<blocking_cq_sread_supported, selfConn, selfq, cmThread, progressThread,
                   cm_thread_stop_, progress_thread_stop_, sUser, othersOfLife>>

NextLife ==
    \/ \E sread \in {"yes", "no"}, pt \in BOOLEAN : EngineStart(sread, pt)
    \/ ConnectSelf
    \/ ConnectSelfWake
    \/ DisconnectSelf
    \/ CmThreadCheck
    \/ CmThreadProgress
    \/ ProgressThreadCheck
    \/ DtorStop
    \/ DtorPost
    \/ DtorJoinCm
    \/ DtorJoinProgress

SpecLife == Init /\ [][NextLife]_vars

\* The threads and the destructor keep running; the user's calls are free.
FairSpecLife ==
    /\ SpecLife
    /\ WF_vars(CmThreadCheck)
    /\ WF_vars(CmThreadProgress)
    /\ WF_vars(ProgressThreadCheck)
    /\ WF_vars(DtorPost)
    /\ WF_vars(DtorJoinCm)
    /\ WF_vars(DtorJoinProgress)

(***************************************************************************)
(* The receiver's mutexes: processNotification, addReceivedXferId with     *)
(* checkPendingNotifications, and getNotifs, each run by any thread.  A    *)
(* position "x_lock" is a thread at the lock_guard of x, "x_held" inside   *)
(* the critical section.                                                   *)
(***************************************************************************)
othersOfLock == <<xferVars, connVars, prepVars, moVars, epVars, moxVars, relVars, lifeVars, mapVars, thrVars, ctlVars, mdVars, lateVars>>

\* positions at which a thread is about to lock receiver_tracking_mutex_
\* (allXferIdsReceived, the enqueue of processNotification,
\* addReceivedXferId, checkPendingNotifications) resp. notif_mutex_
\* (the push of processNotification, the push inside
\* checkPendingNotifications, getNotifs)
WantsTracking == {"all_lock", "pend_lock", "add_lock", "chk_lock"}
WantsNotif == {"push_lock", "chkpush_lock", "get_lock"}

Held(pc) == CASE pc = "all_lock" -> "all_held"
              [] pc = "pend_lock" -> "pend_held"
              [] pc = "add_lock" -> "add_held"
              [] pc = "chk_lock" -> "chk_held"
              [] pc = "push_lock" -> "push_held"
              [] pc = "chkpush_lock" -> "chkpush_held"
              [] pc = "get_lock" -> "get_held"

\* a thread enters one of the three functions
LkEnter(t, fn) ==
    /\ lPc[t] = "idle"
    /\ lPc' = [lPc EXCEPT ![t] = CASE fn = "processNotification" -> "all_lock"
                                    [] fn = "processNotificationNoIds" -> "push_lock"
                                    [] fn = "addReceivedXferId" -> "add_lock"
                                    [] fn = "getNotifs" -> "get_lock"]
    /\ UNCHANGED <<receiver_tracking_mutex_, notif_mutex_, lScan, othersOfLock>>

\* std::lock_guard constructor: the thread gets the mutex when it is free
LkLock(t) ==
    /\ \/ /\ lPc[t] \in WantsTracking
          /\ receiver_tracking_mutex_ = "free"
          /\ receiver_tracking_mutex_' = t
          /\ UNCHANGED notif_mutex_
       \/ /\ lPc[t] \in WantsNotif
          /\ notif_mutex_ = "free"
          /\ notif_mutex_' = t
          /\ UNCHANGED receiver_tracking_mutex_
    /\ lPc' = [lPc EXCEPT ![t] = Held(lPc[t])]
    /\ UNCHANGED <<lScan, othersOfLock>>

\* allXferIdsReceived returns (its lock_guard is destroyed);
\* processNotification goes on to the push or to the enqueue
LkAllXferIdsReceived(t, all) ==
    /\ lPc[t] = "all_held"
    /\ receiver_tracking_mutex_' = "free"
    /\ lPc' = [lPc EXCEPT ![t] = IF all THEN "push_lock" ELSE "pend_lock"]
    /\ UNCHANGED <<notif_mutex_, lScan, othersOfLock>>

\* getNotifs that goes on to track a received XFER_ID inside its critical
\* section
LkUnlockNotif_nested(t) ==
    /\ lPc[t] \in {"push_held", "get_held"}
    /\ lPc' = [lPc EXCEPT ![t] = "add_lock"]
    /\ UNCHANGED <<receiver_tracking_mutex_, notif_mutex_, lScan, othersOfLock>>

\* end of the critical section of a push in processNotification or of
\* getNotifs
LkUnlockNotif(t) ==
    /\ lPc[t] \in {"push_held", "get_held"}
    /\ notif_mutex_' = "free"
    /\ lPc' = [lPc EXCEPT ![t] = "idle"]
    /\ UNCHANGED <<receiver_tracking_mutex_, lScan, othersOfLock>>

\* end of the critical section of the enqueue in processNotification, or of
\* the insert in addReceivedXferId, which then calls
\* checkPendingNotifications
LkUnlockTracking(t) ==
    /\ lPc[t] \in {"pend_held", "add_held"}
    /\ receiver_tracking_mutex_' = "free"
    /\ lPc' = [lPc EXCEPT ![t] = IF lPc[t] = "add_held" THEN "chk_lock" ELSE "idle"]
    /\ UNCHANGED <<notif_mutex_, lScan, othersOfLock>>

\* checkPendingNotifications, one turn of its loop under
\* receiver_tracking_mutex_: hit tells whether the entry at hand has all its
\* XFER_IDs; the loop ends (and the mutex is released) when no entry is left
LkCheckPending(t, hit) ==
    /\ lPc[t] = "chk_held"
    /\ IF hit
       THEN /\ lScan[t] < MaxScan
            /\ lScan' = [lScan EXCEPT ![t] = @ + 1]
            /\ lPc' = [lPc EXCEPT ![t] = "chkpush_lock"]
            /\ UNCHANGED receiver_tracking_mutex_
       ELSE /\ lScan' = [lScan EXCEPT ![t] = 0]
            /\ lPc' = [lPc EXCEPT ![t] = "idle"]
            /\ receiver_tracking_mutex_' = "free"
    /\ UNCHANGED <<notif_mutex_, othersOfLock>>

\* checkPendingNotifications: the inner block with notif_lock ends
LkCheckPendingPushed(t) ==
    /\ lPc[t] = "chkpush_held"
    /\ notif_mutex_' = "free"
    /\ lPc' = [lPc EXCEPT ![t] = "chk_held"]
    /\ UNCHANGED <<receiver_tracking_mutex_, lScan, othersOfLock>>

NextLock ==
    \/ \E t \in Threads, fn \in {"processNotification", "processNotificationNoIds",
                                  "addReceivedXferId", "getNotifs"} : LkEnter(t, fn)
    \/ \E t \in Threads : LkLock(t)
    \/ \E t \in Threads, all \in BOOLEAN : LkAllXferIdsReceived(t, all)
    \/ \E t \in Threads : LkUnlockNotif(t)
    \/ \E t \in Threads : LkUnlockTracking(t)
    \/ \E t \in Threads, hit \in BOOLEAN : LkCheckPending(t, hit)
    \/ \E t \in Threads : LkCheckPendingPushed(t)

SpecLock == Init /\ [][NextLock]_vars

(***************************************************************************)
(* connections_ and connection_state_mutex_ with the threads spelled out.  *)
(* A position names what the thread is doing: "w_lock" / "c_lock" /        *)
(* "est_lock" at a lock_guard of connection_state_mutex_, "w_in" inside    *)
(* loadRemoteConnInfo, "d_in" inside disconnect, "c_in" inside connect     *)
(* before its manual unlock, "est_in" inside establishConnection, "c_find" *)
(* at connect's second lookup, "ack_in" inside processConnectionAck under  *)
(* conn_state_mutex_, or the name of a function that takes no lock.        *)
(***************************************************************************)
othersOfMap == <<xferVars, connVars, prepVars, moVars, epVars, moxVars, relVars, lifeVars, lockVars, thrVars, ctlVars, mdVars, lateVars>>

\* functions that use connections_ without taking connection_state_mutex_
UnlockedUserFns == {"loadLocalMD", "loadRemoteMD", "prepXfer", "postXfer", "notifSendPriv"}
UnlockedCmFns == {"processConnectionAck"}
\* functions that take connection_state_mutex_ for their whole body and
\* insert into or erase from connections_
LockedWriterFns == {"loadRemoteConnInfo", "disconnect"}

\* positions at which the thread uses connections_, resp. changes it
Accessing(t) == mapPc[t] \in {"w_in", "d_in", "c_in", "est_in", "c_find", "ack_in"}
                              \cup UnlockedUserFns \cup UnlockedCmFns
Modifying(t) == mapPc[t] \in {"w_in", "d_in"}

\* an assignment to overall_state_ by thread t, with the mutexes t owns
StateWrite(t) == [by |-> t,
                  connection_state_mutex_ |-> (csmOwner = t),
                  conn_state_mutex_ |-> (conn_state_mutex_ = t)]

\* std::mutex::unlock by thread t: by the owner it frees the mutex; by a
\* thread that does not own it the behaviour is undefined (m: the mutex
\* stays as it is, is freed under its owner, or is broken)
Unlock(t, m) ==
    IF csmOwner = t
    THEN /\ csmOwner' = "free"
         /\ UNCHANGED csmBadUnlock
    ELSE /\ csmOwner' = m
         /\ m \in {csmOwner, "free", "broken"}
         /\ csmBadUnlock' = TRUE

\* a thread enters a function
MapCall(t, fn) ==
    /\ mapPc[t] = "idle"
    /\ IF t = "cm" THEN fn \in UnlockedCmFns ELSE fn \notin UnlockedCmFns
    /\ mapPc' = [mapPc EXCEPT ![t] = IF fn = "loadRemoteConnInfo" THEN "w_lock"
                                      ELSE IF fn = "disconnect" THEN "d_lock"
                                      ELSE IF fn = "connect" THEN "c_lock"
                                      ELSE fn]
    /\ UNCHANGED <<csmOwner, csmBadUnlock, conn_state_mutex_, stateWrites, othersOfMap>>

\* std::lock_guard<std::mutex> lock(connection_state_mutex_)
MapLock(t) ==
    /\ mapPc[t] \in {"w_lock", "d_lock", "c_lock", "est_lock"}
    /\ csmOwner = "free"
    /\ csmOwner' = t
    /\ mapPc' = [mapPc EXCEPT ![t] = CASE mapPc[t] = "w_lock" -> "w_in"
                                        [] mapPc[t] = "d_lock" -> "d_in"
                                        [] mapPc[t] = "c_lock" -> "c_in"
                                        [] mapPc[t] = "est_lock" -> "est_in"]
    /\ UNCHANGED <<csmBadUnlock, conn_state_mutex_, stateWrites, othersOfMap>>

\* a user function that takes no lock has done its lookups and returns
MapUnlockedDone(t) ==
    /\ mapPc[t] \in UnlockedUserFns
    /\ mapPc' = [mapPc EXCEPT ![t] = "idle"]
    /\ UNCHANGED <<csmOwner, csmBadUnlock, conn_state_mutex_, stateWrites, othersOfMap>>

\* processConnectionAck looks the connection up in connections_ and locks
\* its conn_state_mutex_
MapAckLock(t) ==
    /\ mapPc[t] = "processConnectionAck"
    /\ conn_state_mutex_ = "free"
    /\ conn_state_mutex_' = t
    /\ mapPc' = [mapPc EXCEPT ![t] = "ack_in"]
    /\ UNCHANGED <<csmOwner, csmBadUnlock, stateWrites, othersOfMap>>

\* processConnectionAck sets overall_state_ = CONNECTED, notifies and returns
MapAckWrite(t) ==
    /\ mapPc[t] = "ack_in"
    /\ stateWrites' = stateWrites \cup {StateWrite(t)}
    /\ conn_state_mutex_' = "free"
    /\ mapPc' = [mapPc EXCEPT ![t] = "idle"]
    /\ UNCHANGED <<csmOwner, csmBadUnlock, othersOfMap>>

\* loadRemoteConnInfo returns: its lock_guard unlocks
MapWriterDone(t, m) ==
    /\ mapPc[t] = "w_in"
    /\ Unlock(t, m)
    /\ mapPc' = [mapPc EXCEPT ![t] = "idle"]
    /\ UNCHANGED <<conn_state_mutex_, stateWrites, othersOfMap>>

\* disconnect returns: early (agent unknown, already DISCONNECTED, or a
\* cleanup failed), or after it has set overall_state_ = DISCONNECTED and
\* erased the entry; its lock_guard unlocks
MapDisconnectDone(t, erased, m) ==
    /\ mapPc[t] = "d_in"
    /\ stateWrites' = IF erased THEN stateWrites \cup {StateWrite(t)} ELSE stateWrites
    /\ Unlock(t, m)
    /\ mapPc' = [mapPc EXCEPT ![t] = "idle"]
    /\ UNCHANGED <<conn_state_mutex_, othersOfMap>>

\* connect after its first lookup: on a CONNECTED entry it returns (the
\* lock_guard unlocks); otherwise it runs lock.~lock_guard() and calls
\* establishConnection
MapConnectLookup(t, connected, m) ==
    /\ mapPc[t] = "c_in"
    /\ Unlock(t, m)
    /\ mapPc' = [mapPc EXCEPT ![t] = IF connected THEN "idle" ELSE "est_lock"]
    /\ UNCHANGED <<conn_state_mutex_, stateWrites, othersOfMap>>

\* establishConnection returns to connect: its lock_guard unlocks, and
\* connect looks the agent up again
MapEstablishDone(t, m) ==
    /\ mapPc[t] = "est_in"
    /\ Unlock(t, m)
    /\ mapPc' = [mapPc EXCEPT ![t] = "c_find"]
    /\ UNCHANGED <<conn_state_mutex_, stateWrites, othersOfMap>>

\* connect returns after establishConnection: the destructor of lock runs a
\* second time
MapConnectReturn(t, m) ==
    /\ mapPc[t] = "c_find"
    /\ Unlock(t, m)
    /\ mapPc' = [mapPc EXCEPT ![t] = "idle"]
    /\ UNCHANGED <<conn_state_mutex_, stateWrites, othersOfMap>>

NextMap ==
    \/ \E t \in MapThreads, fn \in UnlockedUserFns \cup UnlockedCmFns \cup LockedWriterFns
                                       \cup {"connect"} : MapCall(t, fn)
    \/ \E t \in MapThreads : MapLock(t)
    \/ \E t \in MapThreads : MapUnlockedDone(t)
    \/ \E t \in MapThreads : MapAckLock(t)
    \/ \E t \in MapThreads : MapAckWrite(t)
    \/ \E t \in MapThreads, erased \in BOOLEAN, m \in {"free", "broken"} \cup MapThreads :
           MapDisconnectDone(t, erased, m)
    \/ \E t \in MapThreads, m \in {"free", "broken"} \cup MapThreads : MapWriterDone(t, m)
    \/ \E t \in MapThreads, connected \in BOOLEAN, m \in {"free", "broken"} \cup MapThreads :
           MapConnectLookup(t, connected, m)
    \/ \E t \in MapThreads, m \in {"free", "broken"} \cup MapThreads : MapEstablishDone(t, m)
    \/ \E t \in MapThreads, m \in {"free", "broken"} \cup MapThreads : MapConnectReturn(t, m)

SpecMap == Init /\ [][NextMap]_vars

(***************************************************************************)
(* The striping threshold: the engine's constructor and the rail manager's *)
(* decision.                                                               *)
(***************************************************************************)
othersOfThr == <<xferVars, connVars, prepVars, moVars, epVars, moxVars, relVars, lifeVars,
                 lockVars, mapVars, ctlVars, mdVars, lateVars>>

DecimalDigits == <<"0", "1", "2", "3", "4", "5", "6", "7", "8", "9">>
IsDigit(c) == \E k \in 1 .. 10 : DecimalDigits[k] = c
DigitVal(c) == (CHOOSE k \in 1 .. 10 : DecimalDigits[k] = c) - 1

RECURSIVE SkipSpace(_)
SkipSpace(s) == IF s # <<>> /\ Head(s) = " " THEN SkipSpace(Tail(s)) ELSE s

RECURSIVE DigitPrefix(_)
DigitPrefix(s) ==
    IF s # <<>> /\ IsDigit(Head(s)) THEN <<Head(s)>> \o DigitPrefix(Tail(s)) ELSE <<>>

RECURSIVE DecimalValue(_)
DecimalValue(d) ==
    IF d = <<>> THEN 0
    ELSE DecimalValue(SubSeq(d, 1, Len(d) - 1)) * 10 + DigitVal(d[Len(d)])

\* std::stoull(str): leading white space is skipped, the longest run of
\* digits is converted and what follows is ignored; with no digit it throws
\* (ok = FALSE).  The texts at hand have no sign and stay far below 2^64.
stoull(str) ==
    LET d == DigitPrefix(SkipSpace(str))
    IN  IF d = <<>> THEN [ok |-> FALSE, val |-> 0] ELSE [ok |-> TRUE, val |-> DecimalValue(d)]

\* the constructor: the member initialiser builds rail_manager with the
\* default; the body then sets the engine's own striping_threshold_ from
\* the init parameter, keeping the default when the parameter is absent or
\* stoull throws.  rail_manager is not touched again.
EngineConstruct(p) ==
    /\ thrPc = "none"
    /\ thrPc' = "up"
    /\ thrParam' = p
    /\ railThreshold' = NIXL_LIBFABRIC_DEFAULT_STRIPING_THRESHOLD
    /\ engineThreshold' = IF p.given /\ stoull(p.str).ok THEN stoull(p.str).val
                           ELSE NIXL_LIBFABRIC_DEFAULT_STRIPING_THRESHOLD
    /\ UNCHANGED <<thrSize, thrStriped, othersOfThr>>

\* nixlLibfabricRailManager::shouldUseStriping(transfer_size)
RailShouldUseStriping(transfer_size) ==
    /\ thrPc = "up"
    /\ thrSize' = transfer_size
    /\ thrStriped' = (transfer_size > railThreshold)
    /\ UNCHANGED <<thrPc, thrParam, engineThreshold, railThreshold, othersOfThr>>

NextThr ==
    \/ \E str \in ThresholdTexts, given \in BOOLEAN :
           EngineConstruct([given |-> given, str |-> IF given THEN str ELSE <<>>])
    \/ \E transfer_size \in ThresholdSizes : RailShouldUseStriping(transfer_size)

SpecThr == Init /\ [][NextThr]_vars

(***************************************************************************)
(* The control request pool of control rail 0 and the functions that take  *)
(* a slot from it.  postControlMessage and the rail's completion handling  *)
(* follow the specification: a message that could not be posted gives its  *)
(* slot back, a posted one gives it back when the send has completed.      *)
(***************************************************************************)
othersOfCtl == <<xferVars, connVars, prepVars, moVars, epVars, moxVars, relVars, lifeVars,
                 lockVars, mapVars, thrVars, mdVars, lateVars>>

\* number of slots that are not in the pool
getActiveRequestCount == ControlSlots - Len(ctlFree)

\* postControlMessage(type, control_request, ...) with the slot on top of
\* the free-index stack: posted tells whether the send was submitted
postControlMessage(type, posted) ==
    IF posted
    THEN /\ ctlFlight' = ctlFlight \cup {[slot |-> Head(ctlFree), type |-> type]}
         /\ ctlFree' = Tail(ctlFree)
         /\ UNCHANGED ctlHeld
    ELSE UNCHANGED <<ctlFree, ctlHeld, ctlFlight>>

\* the slot on top of the free-index stack stays with a caller that returns
\* without posting it
KeepSlot ==
    /\ ctlHeld' = ctlHeld \cup {Head(ctlFree)}
    /\ ctlFree' = Tail(ctlFree)
    /\ UNCHANGED ctlFlight

\* notifSendPriv(remote_agent, control_request): found tells whether the
\* agent is in connections_
notifSendPriv(found, posted) ==
    IF ~found
    THEN KeepSlot /\ ctlRet' = "NIXL_ERR_NOT_FOUND"
    ELSE /\ postControlMessage("NOTIFICATION", posted)
         /\ ctlRet' = IF posted THEN "NIXL_SUCCESS" ELSE "NIXL_ERR_BACKEND"

\* postXfer: the slot is taken before the posting loop; a failing
\* descriptor (dataOk = FALSE) returns at once; the slot is handed to
\* notifSendPriv only if a notification was asked for (the agent is known:
\* postXfer has looked it up before)
CtlPostXfer(wantNotif, dataOk, posted) ==
    /\ IF ctlFree = <<>>
       THEN ctlRet' = "NIXL_ERR_BACKEND" /\ UNCHANGED <<ctlFree, ctlHeld, ctlFlight>>
       ELSE IF ~dataOk
       THEN KeepSlot /\ ctlRet' = "NIXL_ERR_BACKEND"
       ELSE IF ~wantNotif
       THEN KeepSlot /\ ctlRet' = "NIXL_IN_PROG"
       ELSE notifSendPriv(TRUE, posted)
    /\ UNCHANGED othersOfCtl

\* genNotif: a slot is taken and handed to notifSendPriv
CtlGenNotif(found, posted) ==
    /\ IF ctlFree = <<>>
       THEN ctlRet' = "NIXL_ERR_BACKEND" /\ UNCHANGED <<ctlFree, ctlHeld, ctlFlight>>
       ELSE notifSendPriv(found, posted)
    /\ UNCHANGED othersOfCtl

\* establishConnection (called by connect): a slot is taken for the
\* CONNECTION_REQ and posted
CtlEstablishConnection(posted) ==
    /\ IF ctlFree = <<>>
       THEN ctlRet' = "NIXL_ERR_BACKEND" /\ UNCHANGED <<ctlFree, ctlHeld, ctlFlight>>
       ELSE /\ postControlMessage("CONNECTION_REQ", posted)
            /\ ctlRet' = IF posted THEN "NIXL_SUCCESS" ELSE "NIXL_ERR_BACKEND"
    /\ UNCHANGED othersOfCtl

\* disconnect from a remote agent: a slot is taken for the DISCONNECT_REQ
\* and posted; a failed post is only logged
CtlDisconnect(posted) ==
    /\ IF ctlFree = <<>>
       THEN ctlRet' = "NIXL_ERR_BACKEND" /\ UNCHANGED <<ctlFree, ctlHeld, ctlFlight>>
       ELSE /\ postControlMessage("DISCONNECT_REQ", posted)
            /\ ctlRet' = "NIXL_SUCCESS"
    /\ UNCHANGED othersOfCtl

\* the send of a posted control message completes: the rail releases the
\* slot
CtlSendComplete(f) ==
    /\ f \in ctlFlight
    /\ ctlFlight' = ctlFlight \ {f}
    /\ ctlFree' = <<f.slot>> \o ctlFree
    /\ UNCHANGED <<ctlHeld, ctlRet, othersOfCtl>>

NextCtl ==
    \/ \E wantNotif \in BOOLEAN, dataOk \in BOOLEAN, posted \in BOOLEAN :
           CtlPostXfer(wantNotif, dataOk, posted)
    \/ \E found \in BOOLEAN, posted \in BOOLEAN : CtlGenNotif(found, posted)
    \/ \E posted \in BOOLEAN : CtlEstablishConnection(posted)
    \/ \E posted \in BOOLEAN : CtlDisconnect(posted)
    \/ \E f \in ctlFlight : CtlSendComplete(f)

SpecCtl == Init /\ [][NextCtl]_vars

(***************************************************************************)
(* Memory registration and remote metadata of the engine of engines: what  *)
(* it creates in its sub-engines and what it releases there.  What a       *)
(* sub-engine answers is an input.                                         *)
(***************************************************************************)
othersOfMd == <<xferVars, connVars, prepVars, moVars, epVars, moxVars, relVars, lifeVars,
                lockVars, mapVars, thrVars, ctlVars, lateVars>>

SubStatuses == {"NIXL_SUCCESS", "NIXL_ERR_BACKEND"}

\* registerMem (with a valid device id): the sub-engine registers (regSt),
\* then its getPublicData is called (pubSt).  On either failure the function
\* returns and the unique_ptr frees priv; out is set on success only.
MdRegisterMem(regSt, pubSt) ==
    /\ mdCalls < MaxMdCalls
    /\ mdCalls' = mdCalls + 1
    /\ IF regSt # "NIXL_SUCCESS"
       THEN /\ mdRet' = regSt
            /\ UNCHANGED <<mdSubRegs, mdPrivs>>
       ELSE /\ mdSubRegs' = mdSubRegs + 1
            /\ IF pubSt # "NIXL_SUCCESS"
               THEN mdRet' = pubSt /\ UNCHANGED mdPrivs
               ELSE mdRet' = "NIXL_SUCCESS" /\ mdPrivs' = mdPrivs + 1
    /\ UNCHANGED <<mdSubRemote, mdPubs, othersOfMd>>

\* getPublicData: returns the string kept in the private metadata
MdGetPublicData ==
    /\ mdPrivs > 0
    /\ mdRet' = "NIXL_SUCCESS"
    /\ UNCHANGED <<mdSubRegs, mdPrivs, mdSubRemote, mdPubs, mdCalls, othersOfMd>>

\* deregisterMem: the sub-engine deregisters and priv is deleted
MdDeregisterMem ==
    /\ mdPrivs > 0
    /\ mdSubRegs' = mdSubRegs - 1
    /\ mdPrivs' = mdPrivs - 1
    /\ mdRet' = "NIXL_SUCCESS"
    /\ UNCHANGED <<mdSubRemote, mdPubs, mdCalls, othersOfMd>>

\* loadRemoteMD / loadLocalMD (internalMDHelper) for a known agent and a
\* well-formed blob: every sub-engine loads the remote metadata in turn;
\* failAt is the index of the first sub-engine whose loadRemoteMD fails
\* (engineCnt: none fails).  On a failure the function returns and the
\* unique_ptr frees md with the int_mds collected so far.
MdLoadRemoteMD(failAt) ==
    /\ mdCalls < MaxMdCalls
    /\ mdCalls' = mdCalls + 1
    /\ mdSubRemote' = mdSubRemote + failAt
    /\ IF failAt < engineCnt
       THEN mdRet' = "NIXL_ERR_BACKEND" /\ UNCHANGED mdPubs
       ELSE mdRet' = "NIXL_SUCCESS" /\ mdPubs' = mdPubs + 1
    /\ UNCHANGED <<mdSubRegs, mdPrivs, othersOfMd>>

\* unloadMD: the sub-engines unload int_mds[0], int_mds[1], ... in turn and
\* the function returns at the first failure (failAt; engineCnt: none).  md
\* is not deleted; the caller gives the pointer up in either case.
MdUnloadMD(failAt) ==
    /\ mdPubs > 0
    /\ mdPubs' = mdPubs - 1
    /\ mdSubRemote' = mdSubRemote - failAt
    /\ mdRet' = IF failAt < engineCnt THEN "NIXL_ERR_BACKEND" ELSE "NIXL_SUCCESS"
    /\ UNCHANGED <<mdSubRegs, mdPrivs, mdCalls, othersOfMd>>

NextMd ==
    \/ \E regSt \in SubStatuses, pubSt \in SubStatuses : MdRegisterMem(regSt, pubSt)
    \/ MdGetPublicData
    \/ MdDeregisterMem
    \/ \E failAt \in 0 .. engineCnt : MdLoadRemoteMD(failAt)
    \/ \E failAt \in 0 .. engineCnt : MdUnloadMD(failAt)

SpecMd == Init /\ [][NextMd]_vars

(***************************************************************************)
(* registerMem / deregisterMem of the multi-rail engine.  The rail         *)
(* manager's registerMemory and deregisterMemory follow the specification: *)
(* every selected rail is visited, a failing rail does not stop the walk.  *)
(***************************************************************************)
othersOfDreg == <<xferVars, connVars, prepVars, moVars, epVars, moxVars, relVars, lifeVars,
                  lockVars, mapVars, thrVars, ctlVars, mdVars, creqVars, ptVars, vramVars, mpVars>>

\* rail_manager.deregisterMemory(selected_rails_, rail_mr_list_) on the
\* rails in mrs: the rails outside failing close their memory region
deregisterMemory(g, mrs, failing) ==
    /\ regMr' = [regMr EXCEPT ![g] =
                    [r \in Rails |-> IF r \in mrs \ failing THEN "closed" ELSE @[r]]]
    /\ regCloses' = [regCloses EXCEPT ![g] =
                        [r \in Rails |-> IF r \in mrs \ failing /\ @[r] < MaxCloses
                                         THEN @[r] + 1 ELSE @[r]]]

\* registerMem of DRAM: ok tells whether rail_manager.registerMemory
\* succeeded; on success the registration is handed out with a memory region
\* on every rail
DrRegisterMem(g, ok) ==
    /\ ~regCrash
    /\ regState[g] = "none"
    /\ IF ok
       THEN /\ regState' = [regState EXCEPT ![g] = "live"]
            /\ regMr' = [regMr EXCEPT ![g] = [r \in Rails |-> "registered"]]
            /\ regRet' = "NIXL_SUCCESS"
       ELSE /\ regRet' = "NIXL_ERR_BACKEND"
            /\ UNCHANGED <<regState, regMr>>
    /\ UNCHANGED <<regCloses, regCrash, othersOfDreg>>

\* deregisterMem(meta) on a registration the engine handed out: the rail
\* manager deregisters (failing: the rails on which that fails), then priv
\* is deleted whatever the status.  On a registration that was deregistered
\* before, priv points to freed memory: the call reads selected_rails_ and
\* rail_mr_list_ from it and deletes it again, which is undefined (ub: the
\* old contents are still read and the regions are closed again, the lists
\* read as empty, or the process crashes).
DrDeregisterMem(g, failing, ub) ==
    /\ ~regCrash
    /\ regState[g] \in {"live", "freed"}
    /\ IF regState[g] = "live"
       THEN /\ ub = "again"
            /\ deregisterMemory(g, Rails, failing)
            /\ regState' = [regState EXCEPT ![g] = "freed"]
            /\ regRet' = IF failing = {} THEN "NIXL_SUCCESS" ELSE "NIXL_ERR_BACKEND"
            /\ UNCHANGED regCrash
       ELSE CASE ub = "again" ->
                   /\ deregisterMemory(g, Rails, failing)
                   /\ regRet' = IF failing = {} THEN "NIXL_SUCCESS" ELSE "NIXL_ERR_BACKEND"
                   /\ UNCHANGED <<regState, regCrash>>
              [] ub = "empty" ->
                   /\ failing = {}
                   /\ regRet' = "NIXL_SUCCESS"
                   /\ UNCHANGED <<regState, regMr, regCloses, regCrash>>
              [] ub = "crash" ->
                   /\ failing = {}
                   /\ regCrash' = TRUE
                   /\ UNCHANGED <<regState, regMr, regCloses, regRet>>
    /\ UNCHANGED othersOfDreg

NextDreg ==
    \/ \E g \in Regs, ok \in BOOLEAN : DrRegisterMem(g, ok)
    \/ \E g \in Regs, failing \in SUBSET Rails, ub \in {"again", "empty", "crash"} :
           DrDeregisterMem(g, failing, ub)

SpecDreg == Init /\ [][NextDreg]_vars

(***************************************************************************)
(* The receiver of a CONNECTION_REQ: processConnectionRequest on the CM    *)
(* thread of the target.                                                   *)
(***************************************************************************)
othersOfCreq == <<xferVars, connVars, prepVars, moVars, epVars, moxVars, relVars, lifeVars,
    lockVars, mapVars, thrVars, ctlVars, mdVars, dregVars, ptVars, vramVars, mpVars>>

\* a CONNECTION_REQ of peer a arrives on a control rail; blob tells whether
\* its serialized endpoint table can be deserialized
CrArrive(a, idx, blob) ==
    /\ crArrived < MaxReqs
    /\ crArrived' = crArrived + 1
    /\ crq' = crq \cup {[from |-> a, agent_idx |-> idx, blob |-> blob]}
    /\ UNCHANGED <<crAvData, crAvCtl, crAcks, crOk, crFailed, othersOfCreq>>

\* processConnectionRequest that always answers with agent index 0
processConnectionRequest_idxZero(r, fail) ==
    /\ r \in crq
    /\ crq' = crq \ {r}
    /\ (r.blob = "bad") <=> (fail = "deserialize")
    /\ crAvData' = IF fail \in {"deserialize", "data"} THEN crAvData
                    ELSE crAvData \cup {n \in DataEndpoints : n[1] = r.from}
    /\ crAvCtl' = IF fail \in {"deserialize", "data", "control"} THEN crAvCtl
                   ELSE crAvCtl \cup {n \in CtlEndpoints : n[1] = r.from}
    /\ IF fail = "none"
       THEN /\ crAcks' = [crAcks EXCEPT ![<<0, <<r.from, "control", 0>>, 0>>] = @ + 1]
            /\ crOk' = [crOk EXCEPT ![<<r.from, r.agent_idx>>] = @ + 1]
            /\ UNCHANGED crFailed
       ELSE /\ crFailed' = crFailed + 1
            /\ UNCHANGED <<crAcks, crOk>>
    /\ UNCHANGED <<crArrived, othersOfCreq>>

\* processConnectionRequest(agent_idx, serialized_data, rail): deserialize
\* the endpoint table, insert all data rail addresses, insert all control
\* rail addresses, allocate a control request on control rail 0 and post
\* CONNECTION_ACK with agent_idx to control_fi_addrs[0].  fail names the
\* first step that fails ("none": the function returns NIXL_SUCCESS); every
\* failure returns at once.
processConnectionRequest(r, fail) ==
    /\ r \in crq
    /\ crq' = crq \ {r}
    /\ (r.blob = "bad") <=> (fail = "deserialize")
    /\ crAvData' = IF fail \in {"deserialize", "data"} THEN crAvData
                    ELSE crAvData \cup {n \in DataEndpoints : n[1] = r.from}
    /\ crAvCtl' = IF fail \in {"deserialize", "data", "control"} THEN crAvCtl
                   ELSE crAvCtl \cup {n \in CtlEndpoints : n[1] = r.from}
    /\ IF fail = "none"
       THEN /\ crAcks' = [crAcks EXCEPT ![<<0, <<r.from, "control", 0>>, r.agent_idx>>] = @ + 1]
            /\ crOk' = [crOk EXCEPT ![<<r.from, r.agent_idx>>] = @ + 1]
            /\ UNCHANGED crFailed
       ELSE /\ crFailed' = crFailed + 1
            /\ UNCHANGED <<crAcks, crOk>>
    /\ UNCHANGED <<crArrived, othersOfCreq>>

NextCreq ==
    \/ \E a \in Peers, idx \in AgentIdxs, blob \in {"ok", "bad"} : CrArrive(a, idx, blob)
    \/ \E r \in crq, fail \in {"none", "deserialize", "data", "control", "alloc", "post"} :
           processConnectionRequest(r, fail)

SpecCreq == Init /\ [][NextCreq]_vars

(***************************************************************************)
(* Who processes the completions of the data rails: the three calls of the *)
(* user's thread, or the progress thread.                                  *)
(***************************************************************************)
othersOfPt == <<xferVars, connVars, prepVars, moVars, epVars, moxVars, relVars, lifeVars,
    lockVars, mapVars, thrVars, ctlVars, mdVars, dregVars, creqVars, vramVars, mpVars>>

\* rail_manager.progressActiveDataRails() called by w: the completions that
\* wait in the data rails' queues are processed
progressActiveDataRails(w) ==
    /\ ptDone' = [ptDone EXCEPT ![w] = @ + cqData]
    /\ cqData' = 0

\* the constructor: progress_thread_enabled_(init_params->enableProgTh), and
\* the progress thread is started only when it is set
PtConstruct(enableProgTh) ==
    /\ ~ptBuilt
    /\ ptBuilt' = TRUE
    /\ progress_thread_enabled_' = enableProgTh
    /\ ptRunning' = enableProgTh
    /\ UNCHANGED <<ptDestroyed, ptArrived, cqData, ptCalls, ptDone, othersOfPt>>

\* the fabric puts a completion on a data rail's queue
PtCompletion ==
    /\ ptBuilt /\ ~ptDestroyed
    /\ ptArrived < MaxCompletions
    /\ ptArrived' = ptArrived + 1
    /\ cqData' = cqData + 1
    /\ UNCHANGED <<ptBuilt, ptDestroyed, progress_thread_enabled_, ptRunning, ptCalls, ptDone,
                   othersOfPt>>

\* the three calls without the test of progress_thread_enabled_
PtApiCall_unguarded(w, early) ==
    /\ ptBuilt /\ ~ptDestroyed
    /\ ptCalls[w] < MaxPtCalls
    /\ early => w = "postXfer"
    /\ ptCalls' = [ptCalls EXCEPT ![w] = @ + 1]
    /\ IF ~early
       THEN progressActiveDataRails(w)
       ELSE UNCHANGED <<cqData, ptDone>>
    /\ UNCHANGED <<ptBuilt, ptDestroyed, progress_thread_enabled_, ptRunning, ptArrived,
                   othersOfPt>>

\* the end of postXfer, checkXfer and the head of getNotifs:
\* if (!progress_thread_enabled_) rail_manager.progressActiveDataRails();
\* early marks a postXfer that returned an error before reaching that line
PtApiCall(w, early) ==
    /\ ptBuilt /\ ~ptDestroyed
    /\ ptCalls[w] < MaxPtCalls
    /\ early => w = "postXfer"
    /\ ptCalls' = [ptCalls EXCEPT ![w] = @ + 1]
    /\ IF ~early /\ ~progress_thread_enabled_
       THEN progressActiveDataRails(w)
       ELSE UNCHANGED <<cqData, ptDone>>
    /\ UNCHANGED <<ptBuilt, ptDestroyed, progress_thread_enabled_, ptRunning, ptArrived,
                   othersOfPt>>

\* one iteration of progressThread's loop
PtProgressThread ==
    /\ ptRunning
    /\ ptCalls["progressThread"] < MaxPtCalls
    /\ ptCalls' = [ptCalls EXCEPT !["progressThread"] = @ + 1]
    /\ progressActiveDataRails("progressThread")
    /\ UNCHANGED <<ptBuilt, ptDestroyed, progress_thread_enabled_, ptRunning, ptArrived,
                   othersOfPt>>

\* one iteration of the CM thread's loop: progressAllControlRails() only
PtCmThread ==
    /\ ptBuilt /\ ~ptDestroyed
    /\ ptCalls["cmThread"] < MaxPtCalls
    /\ ptCalls' = [ptCalls EXCEPT !["cmThread"] = @ + 1]
    /\ UNCHANGED <<ptBuilt, ptDestroyed, progress_thread_enabled_, ptRunning, ptArrived, cqData,
                   ptDone, othersOfPt>>

\* the destructor stops and joins both threads
PtDestroy ==
    /\ ptBuilt /\ ~ptDestroyed
    /\ ptDestroyed' = TRUE
    /\ ptRunning' = FALSE
    /\ UNCHANGED <<ptBuilt, progress_thread_enabled_, ptArrived, cqData, ptCalls, ptDone,
                   othersOfPt>>

NextPt ==
    \/ \E en \in BOOLEAN : PtConstruct(en)
    \/ PtCompletion
    \/ \E w \in PtApi, early \in BOOLEAN : PtApiCall(w, early)
    \/ PtProgressThread
    \/ PtCmThread
    \/ PtDestroy

SpecPt == Init /\ [][NextPt]_vars

(***************************************************************************)
(* The GPU context of the multi-rail engine: the constructor's choice of   *)
(* the address workaround, cudaUpdateCtxPtr, vramUpdateCtx and the CUDA    *)
(* part of registerMem.                                                    *)
(***************************************************************************)
othersOfVram == <<xferVars, connVars, prepVars, moVars, epVars, moxVars, relVars, lifeVars,
    lockVars, mapVars, thrVars, ctlVars, mdVars, dregVars, creqVars, ptVars, mpVars>>

\* nixlLibfabricCudaCtx::cudaUpdateCtxPtr(address, expected_dev, was_updated)
\* with the answer of cudaQueryAddr given as q = [ret, is_dev, dev, ctx]:
\* the value returned, was_updated, and the cached context and device after
cudaUpdateCtxPtr(expected_dev, q) ==
    IF expected_dev = -1 THEN [ret |-> -1, upd |-> FALSE, ctx |-> pthrCudaCtx_, dev |-> myDevId_]
    ELSE IF myDevId_ # -1 /\ expected_dev # myDevId_
         THEN [ret |-> -1, upd |-> FALSE, ctx |-> pthrCudaCtx_, dev |-> myDevId_]
    ELSE IF q.ret # 0 THEN [ret |-> q.ret, upd |-> FALSE, ctx |-> pthrCudaCtx_, dev |-> myDevId_]
    ELSE IF ~q.is_dev THEN [ret |-> 0, upd |-> FALSE, ctx |-> pthrCudaCtx_, dev |-> myDevId_]
    ELSE IF q.dev # expected_dev
         THEN [ret |-> -1, upd |-> FALSE, ctx |-> pthrCudaCtx_, dev |-> myDevId_]
    ELSE IF pthrCudaCtx_ # NullCtx
         THEN [ret |-> IF pthrCudaCtx_ # q.ctx THEN -1 ELSE 0, upd |-> FALSE,
               ctx |-> pthrCudaCtx_, dev |-> myDevId_]
    ELSE [ret |-> 0, upd |-> TRUE, ctx |-> q.ctx, dev |-> expected_dev]

\* the constructor: the workaround is on unless NIXL_DISABLE_CUDA_ADDR_WA is set
VrConstruct(disableEnv) ==
    /\ ~vrBuilt
    /\ vrBuilt' = TRUE
    /\ cuda_addr_wa_' = ~disableEnv
    /\ UNCHANGED <<pthrCudaCtx_, myDevId_, vrFirst, vrRegs, vrLast, othersOfVram>>

\* registerMem of a VRAM (or DRAM) descriptor on device devId: q is what
\* cudaQueryAddr answers, setOk whether cudaSetDevice succeeds, railOk
\* whether the rail manager registers the memory
VrRegisterMem(seg, devId, q, setOk, railOk) ==
    /\ vrBuilt
    /\ vrRegs < MaxVramRegs
    /\ vrRegs' = vrRegs + 1
    /\ LET u == cudaUpdateCtxPtr(devId, q)
           tried == seg = "VRAM" /\ cuda_addr_wa_
           wa == IF tried /\ u.ret # 0 THEN FALSE ELSE cuda_addr_wa_
           ret == IF seg = "VRAM" /\ ~wa /\ ~setOk THEN "NIXL_ERR_NOT_SUPPORTED"
                  ELSE IF ~railOk THEN "NIXL_ERR_BACKEND"
                  ELSE "NIXL_SUCCESS"
       IN  /\ cuda_addr_wa_' = wa
           /\ pthrCudaCtx_' = IF tried THEN u.ctx ELSE pthrCudaCtx_
           /\ myDevId_' = IF tried THEN u.dev ELSE myDevId_
           /\ vrFirst' = IF tried /\ u.upd /\ vrFirst = <<>> THEN <<u.ctx, u.dev>> ELSE vrFirst
           /\ vrLast' = [seg |-> seg, dev |-> devId, wa |-> cuda_addr_wa_, bound |-> myDevId_,
                         ret |-> ret]
    /\ UNCHANGED <<vrBuilt, othersOfVram>>

NextVram ==
    \/ \E d \in BOOLEAN : VrConstruct(d)
    \/ \E seg \in {"DRAM", "VRAM"}, devId \in VramDevs, setOk \in BOOLEAN, railOk \in BOOLEAN,
          q \in [ret : {0, -1}, is_dev : BOOLEAN, dev : VramDevs, ctx : CudaCtxs] :
           VrRegisterMem(seg, devId, q, setOk, railOk)

SpecVram == Init /\ [][NextVram]_vars

(***************************************************************************)
(* prepXfer of the engine of engines: the loop that prepares one           *)
(* sub-engine request per cell in use, and its error path.                 *)
(***************************************************************************)
othersOfMp == <<xferVars, connVars, prepVars, moVars, epVars, moxVars, relVars, lifeVars,
    lockVars, mapVars, thrVars, ctlVars, mdVars, dregVars, creqVars, ptVars, vramVars>>

\* the loop visits the matrix row by row
MpBefore(c, d) == c[1] < d[1] \/ (c[1] = d[1] /\ c[2] < d[2])

\* err_clean_sub_req after the sub-engine failed at cell fail = <<lidx, ridx>>:
\* lidx_max = lidx + 1, ridx_max = ridx, and the cells in use with
\* row < lidx_max and column < ridx_max are released
err_clean_sub_req(use, fail) == {c \in use : c[1] < fail[1] + 1 /\ c[2] < fail[2]}

\* prepXfer whose descriptors passed validation and fill the cells use;
\* fail is the cell at which the sub-engine's prepXfer fails, <<>> when none does
MpPrepXfer(use, fail) ==
    /\ mpCalls < MaxMpCalls
    /\ mpCalls' = mpCalls + 1
    /\ mpUse' = use
    /\ IF fail = <<>>
       THEN /\ mpPrepared' = use
            /\ mpReleased' = {}
            /\ mpRet' = "NIXL_SUCCESS"
            /\ mpHandle' = TRUE
       ELSE /\ fail \in use
            /\ mpPrepared' = {c \in use : MpBefore(c, fail)}
            /\ mpReleased' = err_clean_sub_req(use, fail)
            /\ mpRet' = "NIXL_ERR_INVALID_PARAM"
            /\ mpHandle' = FALSE
    /\ UNCHANGED othersOfMp

NextMp ==
    \E use \in SUBSET MpCells, fail \in MpCells \cup {<<>>} : MpPrepXfer(use, fail)

SpecMp == Init /\ [][NextMp]_vars

(***************************************************************************)
(* Properties of connection management (SpecConn, FairSpecConn).           *)
(***************************************************************************)
\* C9: the overall state of a connection changes only DISCONNECTED ->
\* CONNECT_REQ_SENT, CONNECT_REQ_SENT -> CONNECTED or CONNECT_REQ_SENT ->
\* FAILED.
C9_OnlyHandshakeTransitions ==
    [][\A a \in Peers :
          (connections_[a] # NoConn /\ connections_'[a] # NoConn
             /\ connections_'[a].agent_index_ = connections_[a].agent_index_
             /\ connections_'[a].overall_state_ # connections_[a].overall_state_)
          => <<connections_[a].overall_state_, connections_'[a].overall_state_>> \in
                 {<<"DISCONNECTED", "CONNECT_REQ_SENT">>,
                  <<"CONNECT_REQ_SENT", "CONNECTED">>,
                  <<"CONNECT_REQ_SENT", "FAILED">>}]_vars

\* C10: a connect call that waits on the connection's condition variable
\* eventually returns.
C10_ConnectReturns == (uPc = "wait") ~> (uPc = "idle")

\* C11: a connection whose state has left DISCONNECTED is never DISCONNECTED
\* again while its record exists: only disconnect sets DISCONNECTED, and it
\* erases the record in the same call; no CM-thread event sets it.
C11_NoReturnToDisconnected ==
    [][\A a \in Peers :
          (connections_[a] # NoConn /\ connections_[a].overall_state_ # "DISCONNECTED"
             /\ connections_'[a] # NoConn)
          => connections_'[a].overall_state_ # "DISCONNECTED"]_vars

\* C12: loadRemoteConnInfo creates a connection record (agent_names_ grows)
\* only for an agent that has no record; for a loaded agent the record stays
\* as it is.
C12_LoadOnlyWhenAbsent ==
    [][\A a \in Peers :
          (agent_names_' = Append(agent_names_, a)) => connections_[a] = NoConn]_vars

\* C13: connect and disconnect on an agent that has no connection record
\* return NIXL_ERR_NOT_FOUND, leave every connection record as it is and send
\* no control message: the multi-rail engine sends no CONNECTION_REQ, the
\* engine of engines calls no sub-engine.
C13_UnknownAgentNotFound ==
    [][\A a \in Peers :
          /\ \A sent \in BOOLEAN, m \in {"free", "broken"} :
                (connections_[a] = NoConn /\ Connect(a, sent, m))
                => (connRet' = "NIXL_ERR_NOT_FOUND" /\ connections_' = connections_
                      /\ agent_names_' = agent_names_ /\ reqs' = reqs /\ uPc' = "idle")
          /\ \A cleaned \in BOOLEAN :
                (connections_[a] = NoConn /\ Disconnect(a, cleaned))
                => (connRet' = "NIXL_ERR_NOT_FOUND" /\ connections_' = connections_
                      /\ agent_names_' = agent_names_ /\ reqs' = reqs)
          /\ \A subOk \in BOOLEAN :
                (remoteConnMap[a] = NoMoConn /\ (MoConnect(a, subOk) \/ MoDisconnect(a, subOk)))
                => (moRet' = "NIXL_ERR_NOT_FOUND" /\ remoteConnMap' = remoteConnMap
                      /\ ~moSub')]_vars

\* the two engines have each answered a connect or disconnect for an agent
\* they hold no record of
C13_BothAnsweredNotFound ==
    /\ connRet = "NIXL_ERR_NOT_FOUND"
    /\ moRet = "NIXL_ERR_NOT_FOUND"
    /\ \A a \in Peers : connections_[a] = NoConn /\ remoteConnMap[a] = NoMoConn

\* C14: prepXfer with lists of different counts returns
\* NIXL_ERR_INVALID_PARAM and hands out no handle, and postXfer never reads a
\* remote descriptor past the end of the remote list.
C14_CountMismatchRejected ==
    /\ prepH # NoHandle => prepH.nl = prepH.nr
    /\ ~remoteOob

\* C15: prepXfer naming an agent without loaded connection info returns
\* NIXL_ERR_INVALID_PARAM and hands out no handle.
C15_UnknownAgentInvalidParam ==
    [][\A a \in Peers, nl \in DescCounts, nr \in DescCounts :
          (PrepXfer(a, nl, nr) /\ connections_[a] = NoConn)
          => (prepRet' = "NIXL_ERR_INVALID_PARAM" /\ prepH' = NoHandle)]_vars

\* C17: registerMem of VRAM on a device that is not one of the engine's GPUs
\* answers NIXL_ERR_NOT_SUPPORTED and hands out no private metadata.
C17_UnreachableVramNotSupported ==
    [][\A devId \in DevIds, asserts \in BOOLEAN,
          subSt \in {"NIXL_SUCCESS", "NIXL_ERR_BACKEND"} :
          (MoRegisterMem("VRAM_SEG", devId, asserts, subSt) /\ ~(devId < gpuCnt))
          => (moRet' = "NIXL_ERR_NOT_SUPPORTED" /\ moOut' = "none" /\ moMds' = moMds)]_vars

(***************************************************************************)
(* Properties of the transfer path (specification Spec).                   *)
(***************************************************************************)
\* sub-requests of initiator i still in flight
InFlight(i) == {s \in flight : s.ini = i}

\* some sub-request of post p of initiator i has a remote-write completion the
\* receiver has not yet taken into received_remote_writes_: the write has not
\* landed, or its completion still waits on the receiver's rail
Unobserved(i, p) ==
    \/ \E s \in flight : s.ini = i /\ s.post = p /\ s.op = "WRITE" /\ s.st = "posted"
    \/ \E r \in Rails : \E k \in 1 .. Len(rcq[r]) : rcq[r][k].ini = i /\ rcq[r][k].post = p

\* copies of the notification with key k = <<agent, message>> anywhere between
\* the sender and the caller of getNotifs
Copies(k) ==
    Cardinality({n \in ctlq : <<n.agent, n.msg>> = k})
    + (IF <<cmNotif.agent, cmNotif.msg>> = k THEN 1 ELSE 0)
    + CountKey(pending_notifications_, k)
    + CountKey(notifMainList_, k)
    + delivered[k]

\* C1: a WRITE post's notification is on the user-visible list only when the
\* remote-write completion of every sub-request of that same post has been
\* observed by the receiver.
C1_NotifAfterOwnWrites ==
    \A k \in 1 .. Len(notifMainList_) :
        notifMainList_[k].op = "WRITE" =>
            ~Unobserved(notifMainList_[k].agent, notifMainList_[k].msg)

\* C2: every notification on notifMainList_ has an empty XFER_ID set or one
\* contained in received_remote_writes_, whichever path appended it, and the
\* immediate path is about to append only such a notification.
C2_ListedIdsReceived ==
    /\ \A k \in 1 .. Len(notifMainList_) :
           notifMainList_[k].ids \subseteq received_remote_writes_
    /\ (cmPc = "commit" /\ cmAllRecv) => cmNotif.ids \subseteq received_remote_writes_

\* C2 witness: the list holds a notification with XFER_IDs appended by the
\* deferred path and one appended by the immediate path.
C2_BothPathsListed ==
    \E j, k \in 1 .. Len(notifMainList_) :
        /\ notifMainList_[j].path = "deferred" /\ notifMainList_[j].ids # {}
        /\ notifMainList_[k].path = "immediate" /\ notifMainList_[k].ids # {}

\* C3: when neither receiver thread is inside its critical steps, no queued
\* notification has all its XFER_IDs received: it was moved without waiting
\* for a further arrival.
C3_NoStrandedPending ==
    (cmPc = "idle" /\ dpPc = "idle") =>
        \A k \in 1 .. Len(pending_notifications_) :
            ~all_received(pending_notifications_[k])

\* C4: once postXfer has returned after submitting sub-requests and every
\* submitted sub-request has completed, checkXfer no longer answers
\* NIXL_IN_PROG (it has no error answer derived from the handle).
C4_SettledNotInProgress ==
    \A i \in Initiators :
        (hPc[i] = "ready" /\ postRet[i] # "NONE" /\ InFlight(i) = {}
           /\ completed_requests_[i] > 0)
            => checkXfer(i) # "NIXL_IN_PROG"

\* C5: from the end of init_request_tracking on, completed_requests_ <=
\* total_requests_used_, and they are equal only when the posting loop has no
\* descriptor left and no sub-request of the post is in flight.
C5_CompletedWithinTotal ==
    \A i \in Initiators :
        hPc[i] \in {"loop", "ready"} =>
            /\ completed_requests_[i] <= total_requests_used_[i]
            /\ is_completed(i) => (InFlight(i) = {} /\ descLeft[i] = 0)

\* C5 witness: a striped post whose sub-requests have partly completed while
\* others are in flight, and one whose counters have met.
C5_PartlyCompleted ==
    \E i \in Initiators :
        /\ hPc[i] = "ready"
        /\ postRet[i] = "NIXL_IN_PROG"
        /\ completed_requests_[i] = 1
        /\ total_requests_used_[i] = 2
        /\ InFlight(i) # {}

\* C6: no XFER_ID has been carried by more than one sub-request.
C6_XferIdUsedOnce == \A x \in XferIds : xidUses[x] <= 1

\* C7: on every post, the first included, completed_requests_ counts exactly
\* the completed sub-requests of that post: in the loop it is the number
\* submitted minus those in flight, after a successful return it is the
\* adjusted total minus those in flight, so checkXfer answers NIXL_SUCCESS
\* exactly when none is in flight.
C7_RepostCountsOwnCompletions ==
    \A i \in Initiators :
        /\ hPc[i] = "loop" =>
               completed_requests_[i] + Cardinality(InFlight(i)) = Len(binary_notif[i])
        /\ (hPc[i] = "ready" /\ postRet[i] \in {"NIXL_SUCCESS", "NIXL_IN_PROG"}) =>
               /\ completed_requests_[i] + Cardinality(InFlight(i)) = total_requests_used_[i]
               /\ (checkXfer(i) = "NIXL_SUCCESS") <=> (InFlight(i) = {})

\* C7 witness: the second post of the handle, striped, has completed.
C7_SecondPostSucceeded ==
    \E i \in Initiators :
        /\ postNo[i] = 2
        /\ hPc[i] = "ready"
        /\ postRet[i] = "NIXL_IN_PROG"
        /\ total_requests_used_[i] = 2
        /\ checkXfer(i) = "NIXL_SUCCESS"

C16_ZeroLengthRejected ==
    [][\A i \in Initiators, nOk \in 0 .. NumDataRails :
          PostDesc(i, "ok", 0, nOk)
          => (postRet'[i] = "NIXL_ERR_INVALID_PARAM" /\ flight' = flight)]_vars

(***************************************************************************)
(* Properties of the UCX endpoint (SpecEp).                                *)
(***************************************************************************)
\* C18: an endpoint's state moves only NULL -> CONNECTED and CONNECTED ->
\* FAILED or DISCONNECTED; it becomes FAILED only in an error callback that
\* finds it CONNECTED, and that step makes one forced close; FAILED and
\* DISCONNECTED are never left, and an error callback arriving in either of
\* them changes neither the state nor the handle and closes nothing.
C18_EndpointStateMachine ==
    [][\A e \in Eps :
          /\ epState'[e] # epState[e] =>
                \/ epState[e] = "NULL" /\ epState'[e] = "CONNECTED"
                \/ epState[e] = "CONNECTED" /\ epState'[e] \in {"FAILED", "DISCONNECTED"}
          /\ (epState'[e] = "FAILED" /\ epState[e] # "FAILED") =>
                /\ epState[e] = "CONNECTED"
                /\ epErrs'[e] = epErrs[e] + 1
                /\ epClose'[e] = Append(epClose[e], "FORCE")
          /\ (epState[e] \in {"FAILED", "DISCONNECTED"} /\ epErrs'[e] # epErrs[e]) =>
                /\ epState'[e] = epState[e]
                /\ epClose'[e] = epClose[e]
                /\ eph'[e] = eph[e]]_vars

\* C18 witness: an endpoint failed by its first error callback has received a
\* second one and has still been closed once, by force.
C18_LaterCallbackIgnored ==
    \E e \in Eps :
        /\ epState[e] = "FAILED"
        /\ epErrs[e] = 2
        /\ epClose[e] = <<"FORCE">>

\* C19: when an endpoint in state FAILED is disconnected, the transport's
\* close primitive is not called, closeImpl returns
\* NIXL_ERR_REMOTE_DISCONNECT and disconnect_nb returns NIXL_SUCCESS.
C19_FailedCloseTouchesNothing ==
    [][\A e \in Eps :
          (epState[e] = "FAILED" /\ epLive[e] = "live" /\ epLive'[e] = "gone") =>
              /\ epClose'[e] = epClose[e]
              /\ epRet'[e] = "NIXL_ERR_REMOTE_DISCONNECT"
              /\ epDiscRet'[e] = "NIXL_SUCCESS"]_vars

\* C19 witness: a FAILED endpoint has been disconnected; the only close it
\* ever saw is the forced one of the error callback.
C19_FailedDisconnected ==
    \E e \in Eps :
        /\ epState[e] = "FAILED"
        /\ epLive[e] = "gone"
        /\ epClose[e] = <<"FORCE">>
        /\ epRet[e] = "NIXL_ERR_REMOTE_DISCONNECT"
        /\ epDiscRet[e] = "NIXL_SUCCESS"

\* C20: ucx_status_to_nixl answers, for every transport status, the one kind
\* the table gives: UCS_OK is success; in-progress and busy are in progress;
\* not-connected, connection-reset and endpoint-timeout are remote
\* disconnect; invalid-param is invalid param; canceled is canceled; every
\* other status is backend.  It holds for the function and for every status
\* an endpoint call has translated.
C20_StatusTranslation ==
    LET kind(st) ==
            CASE st = "UCS_OK" -> "NIXL_SUCCESS"
              [] st = "UCS_INPROGRESS" -> "NIXL_IN_PROG"
              [] st = "UCS_ERR_BUSY" -> "NIXL_IN_PROG"
              [] st = "UCS_ERR_NOT_CONNECTED" -> "NIXL_ERR_REMOTE_DISCONNECT"
              [] st = "UCS_ERR_CONNECTION_RESET" -> "NIXL_ERR_REMOTE_DISCONNECT"
              [] st = "UCS_ERR_ENDPOINT_TIMEOUT" -> "NIXL_ERR_REMOTE_DISCONNECT"
              [] st = "UCS_ERR_INVALID_PARAM" -> "NIXL_ERR_INVALID_PARAM"
              [] st = "UCS_ERR_CANCELED" -> "NIXL_ERR_CANCELED"
              [] OTHER -> "NIXL_ERR_BACKEND"
    IN  /\ \A st \in UcsStatuses : ucx_status_to_nixl(st) = kind(st)
        /\ \A e \in Eps : epUcs[e] # "NONE" => epNixl[e] = kind(epUcs[e])

\* C20 witness: one endpoint's creation was answered busy and translated to
\* in progress, the other's close was answered with a status the translation
\* does not name and translated to backend.
C20_BusyAndUnnamedTranslated ==
    /\ epUcs[1] = "UCS_ERR_BUSY" /\ epNixl[1] = "NIXL_IN_PROG" /\ epLive[1] = "none"
    /\ epUcs[2] = "UCS_ERR_NO_MEMORY" /\ epNixl[2] = "NIXL_ERR_BACKEND"
    /\ epLive[2] = "gone" /\ epRet[2] = "NIXL_ERR_BACKEND"

(***************************************************************************)
(* Properties of the engine of engines' transfer path (SpecMoX).           *)
(***************************************************************************)
\* C21: the notification of a post is sent only when no sub-engine transfer
\* is in progress: by postXfer itself when every sub-engine answered success
\* inline, not by a postXfer that left a transfer in progress, and otherwise
\* by the checkXfer call that first finds every transfer complete.
C21_NotifAfterAllSubTransfers ==
    [][/\ xSent' # xSent => \A m \in MoElems : xSub'[m] # "flying"
       /\ (xPost' = xPost + 1 /\ xRet' = "NIXL_IN_PROG") => xSent' = xSent
       /\ (xPost' = xPost + 1 /\ xRet' = "NIXL_SUCCESS" /\ xWant'[xPost']) =>
              xSent'[xPost'] = xSent[xPost'] + 1
       /\ (xChecks' = xChecks + 1 /\ xPosted = "NIXL_IN_PROG" /\ xRet = "NIXL_IN_PROG"
               /\ xRet' = "NIXL_SUCCESS" /\ xWant[xPost]) =>
              xSent'[xPost] = xSent[xPost] + 1]_vars

\* C21 witness: a post asking for a notification left both transfers in
\* progress, a first checkXfer found them so, and the second one, after both
\* completed, sent the notification.
C21_SentByLaterCheck ==
    /\ xPost = 1 /\ xWant[1] /\ xChecks = 2
    /\ xSent[1] = 1
    /\ xRet = "NIXL_SUCCESS"
    /\ \A m \in MoElems : xSub[m] = "done" /\ ~in_progress[m]

\* C22: a post that asked for a notification has had at most one sent, and
\* exactly one once it is reported complete; a post that asked for none has
\* had none sent.  This holds however often checkXfer is called and however
\* the handle is posted again.
C22_OneNotifPerPost ==
    \A p \in 1 .. xPost :
        /\ xWant[p] => xSent[p] <= 1
        /\ ~xWant[p] => xSent[p] = 0
        /\ (p = xPost /\ xWant[p] /\ xPosted \in {"NIXL_SUCCESS", "NIXL_IN_PROG"}
               /\ xRet = "NIXL_SUCCESS") => xSent[p] = 1

(***************************************************************************)
(* Properties of releaseReqH (SpecRel).                                    *)
(***************************************************************************)
\* C23: when releaseReqH returns, no sub-request of the handle is outstanding
\* any more (each was cancelled), and no completion callback runs against a
\* released handle.
C23_ReleaseCancelsOutstanding ==
    [][\A i \in Initiators :
          /\ (released'[i] /\ ~released[i]) => \A s \in flight' : s.ini # i
          /\ released[i] => completed_requests_'[i] = completed_requests_[i]]_vars

(***************************************************************************)
(* Properties of the engine's life (SpecLife, FairSpecLife).               *)
(***************************************************************************)
\* C24: once the destructor has begun it finishes: both threads exit and are
\* joined, whatever the user did with the engine before.
C24_DestructorTerminates == (dtor # "none") ~> (dtor = "done")

(***************************************************************************)
(* Properties of the receiver's mutexes (SpecLock).                        *)
(***************************************************************************)
\* C25: a thread that takes receiver_tracking_mutex_ does not hold
\* notif_mutex_; a thread holds both only inside checkPendingNotifications,
\* where it took receiver_tracking_mutex_ first; and the threads never
\* deadlock: no two threads wait for a mutex the other owns, and whenever
\* some thread is inside one of the functions, some thread can take a step.
C25_LockOrder ==
    LET Blocked(t) == \/ lPc[t] \in WantsTracking /\ receiver_tracking_mutex_ # "free"
                      \/ lPc[t] \in WantsNotif /\ notif_mutex_ # "free"
        Waits(t, u) == \/ lPc[t] \in WantsTracking /\ receiver_tracking_mutex_ = u
                       \/ lPc[t] \in WantsNotif /\ notif_mutex_ = u
    IN  /\ \A t \in Threads :
                /\ lPc[t] \in WantsTracking => notif_mutex_ # t
                /\ (receiver_tracking_mutex_ = t /\ notif_mutex_ = t) => lPc[t] = "chkpush_held"
        /\ \A t, u \in Threads : ~(Waits(t, u) /\ Waits(u, t))
        /\ (\E t \in Threads : lPc[t] # "idle")
                => \E t \in Threads : lPc[t] # "idle" /\ ~Blocked(t)

\* C25 witness: the progress thread holds both mutexes inside
\* checkPendingNotifications while the CM thread waits for
\* receiver_tracking_mutex_ to enqueue and the user thread waits for
\* notif_mutex_ in getNotifs.
C25_AllThreeContend ==
    /\ lPc["progress"] = "chkpush_held"
    /\ lPc["cm"] = "pend_lock"
    /\ lPc["user"] = "get_lock"

(***************************************************************************)
(* Properties of connections_ and connection_state_mutex_ (SpecMap).       *)
(***************************************************************************)
\* C26: a thread that reads or writes connections_ owns
\* connection_state_mutex_; the mutex is unlocked only by its owner (once
\* per acquisition); and no thread uses connections_ while another thread
\* inserts into it or erases from it.
C26_MapUnderMutex ==
    /\ \A t \in MapThreads : Accessing(t) => csmOwner = t
    /\ ~csmBadUnlock
    /\ \A t, u \in MapThreads : (t # u /\ Modifying(t)) => ~Accessing(u)

\* C27: every write of a connection's overall_state_ is made by the CM
\* thread while it owns that connection's conn_state_mutex_.
C27_StateWrittenByCmUnderOwnMutex ==
    \A w \in stateWrites : w.by = "cm" /\ w.conn_state_mutex_

(***************************************************************************)
(* Properties of the striping threshold (SpecThr).                         *)
(***************************************************************************)
\* C28: once the engine is constructed, the rail manager's threshold is the
\* value of the striping_threshold init parameter when it is given and is
\* a decimal integer, and 1 MiB otherwise; shouldUseStriping answers
\* striping exactly for sizes above that threshold (a size equal to it is
\* round-robin).
C28_ThresholdFromInitParam ==
    LET IsInteger(str) == str # <<>> /\ \A k \in 1 .. Len(str) : IsDigit(str[k])
        expected == IF thrParam.given /\ IsInteger(thrParam.str)
                    THEN DecimalValue(thrParam.str)
                    ELSE NIXL_LIBFABRIC_DEFAULT_STRIPING_THRESHOLD
    IN  thrPc = "up" =>
            /\ railThreshold = expected
            /\ thrStriped = (thrSize > expected)

(***************************************************************************)
(* Properties of the control request pool (SpecCtl).                       *)
(***************************************************************************)
\* C29: a slot that is out of the control request pool belongs to a control
\* message that has been posted and whose send has not completed yet; so
\* once no send is outstanding the pool's active count is zero.
C29_ControlSlotsReturned ==
    /\ ctlHeld = {}
    /\ (ctlFlight = {} => getActiveRequestCount = 0)

(***************************************************************************)
(* Properties of the engine of engines' metadata (SpecMd).                 *)
(***************************************************************************)
\* C30: the sub-engine registrations that are live are those of the
\* private metadata the caller holds, and the live sub-engine remote
\* metadata objects are those of the public metadata the caller holds; so
\* once the caller has deregistered and unloaded everything it holds, no
\* sub-engine handle is live.
C30_NoHandleLeaked ==
    /\ mdSubRegs = mdPrivs
    /\ mdSubRemote = mdPubs * engineCnt
    /\ (mdPrivs = 0 /\ mdPubs = 0) => (mdSubRegs = 0 /\ mdSubRemote = 0)

(***************************************************************************)
(* Properties of deregisterMem (SpecDreg).                                 *)
(***************************************************************************)
\* C31: deregisterMem frees the private metadata whatever the rails
\* answer (a registration that was deregistered is never live again), and
\* a repeated deregisterMem of the same registration is harmless: no rail
\* closes a memory region twice and the process keeps running.
C31_DeregisterIdempotent ==
    /\ \A g \in Regs, r \in Rails : regCloses[g][r] <= 1
    /\ \A g \in Regs : (\E r \in Rails : regCloses[g][r] > 0) => regState[g] = "freed"
    /\ ~regCrash

(***************************************************************************)
(* Properties of READ transfers (FairSpec).                                *)
(***************************************************************************)
\* C32: a notification sent with a postXfer(READ) is eventually returned by
\* the target's getNotifs.
C32_ReadNotifDelivered ==
    \A i \in Initiators, m \in 1 .. MaxPosts :
        (\E n \in ctlq : n.agent = i /\ n.msg = m /\ n.op = "READ" /\ n.ids # {})
            ~> (delivered[<<i, m>>] > 0)

(***************************************************************************)
(* Properties of processConnectionRequest (SpecCreq).                      *)
(***************************************************************************)
\* C33: the CONNECTION_ACKs posted are exactly one per request processed
\* with NIXL_SUCCESS, each on control rail 0, to the sender's first control
\* address and with the request's agent index; a request whose processing
\* failed has caused none; and the sender of a successfully processed
\* request has all its data and control addresses inserted.
C33_OneAckPerProcessedRequest ==
    /\ \A k \in DOMAIN crAcks :
          crAcks[k] = IF k[1] = 0 /\ k[2][3] = 0 THEN crOk[<<k[2][1], k[3]>>] ELSE 0
    /\ \A a \in Peers :
          (\E idx \in AgentIdxs : crOk[<<a, idx>>] > 0)
             => /\ {n \in DataEndpoints : n[1] = a} \subseteq crAvData
                /\ {n \in CtlEndpoints : n[1] = a} \subseteq crAvCtl

\* C33 witness: one request with agent index 1 was processed and answered,
\* another one failed after the data addresses of its sender were inserted.
C33_AckedAndFailed ==
    \E a, b \in Peers :
        /\ a # b
        /\ crOk[<<a, 1>>] = 1 /\ crAcks[<<0, <<a, "control", 0>>, 1>>] = 1
        /\ crFailed > 0
        /\ {n \in DataEndpoints : n[1] = b} \subseteq crAvData
        /\ {n \in CtlEndpoints : n[1] = b} \cap crAvCtl = {}

(***************************************************************************)
(* Properties of data rail progress (SpecPt).                              *)
(***************************************************************************)
\* C34: with the progress thread disabled, only postXfer, checkXfer and
\* getNotifs have processed data rail completions; with it enabled, none of
\* the three has processed any and only the progress thread has.  The CM
\* thread never does.
C34_WhoProgressesDataRails ==
    /\ progress_thread_enabled_ => \A w \in PtCallers \ {"progressThread"} : ptDone[w] = 0
    /\ ~progress_thread_enabled_ => \A w \in PtCallers \ PtApi : ptDone[w] = 0
    /\ ~progress_thread_enabled_ => ~ptRunning

\* C34 witness: with the progress thread enabled a completion waited while
\* all three calls were made, and the progress thread then processed it.
C34_ThreadDidIt ==
    /\ progress_thread_enabled_
    /\ \A w \in PtApi : ptCalls[w] > 0
    /\ ptArrived = 1 /\ ptCalls["progressThread"] = 1
    /\ ptDone["progressThread"] = 1

(***************************************************************************)
(* Properties of the GPU context (SpecVram).                               *)
(***************************************************************************)
\* C35: the cached context and device id are those of the first binding
\* for ever after it, and a VRAM registration for a device other than the
\* bound one that was made while the address workaround was enabled has not
\* returned NIXL_SUCCESS.
C35_BoundContextAndSecondDevice ==
    /\ vrFirst # <<>> => pthrCudaCtx_ = vrFirst[1] /\ myDevId_ = vrFirst[2]
    /\ vrFirst = <<>> => pthrCudaCtx_ = NullCtx /\ myDevId_ = -1
    /\ (vrLast.seg = "VRAM" /\ vrLast.bound # -1 /\ vrLast.dev # vrLast.bound /\ vrLast.wa)
          => vrLast.ret # "NIXL_SUCCESS"

(***************************************************************************)
(* Properties of disconnect (SpecConn).                                    *)
(***************************************************************************)
\* C36: a disconnect(agent) that returns NIXL_SUCCESS leaves no connection
\* record for that agent, whatever the state of the record was.
C36_DisconnectLeavesNoRecord ==
    [][\A a \in Peers :
          ((\E cleaned \in BOOLEAN : Disconnect(a, cleaned)) /\ connRet' = "NIXL_SUCCESS")
              => connections_'[a] = NoConn]_vars

(***************************************************************************)
(* Properties of repeated disconnects of a UCX endpoint (SpecEpDisc).      *)
(***************************************************************************)
\* C37: whatever disconnect_nb calls, error callbacks and destruction an
\* endpoint has seen, the transport's close primitive was called on it at
\* most once.
C37_ClosedAtMostOnce ==
    \A e \in Eps : Len(epClose[e]) <= 1

(***************************************************************************)
(* Properties of a failing postXfer (Spec).                                *)
(***************************************************************************)
\* C38: when postXfer returns an error from its posting loop, no data
\* sub-request of that call is posted to the fabric, holding a slot of a
\* rail's request pool.
C38_FailingPostAllOrNothing ==
    [][\A i \in Initiators :
          (hPc[i] = "loop" /\ hPc'[i] = "ready"
              /\ postRet'[i] \notin {"NIXL_SUCCESS", "NIXL_IN_PROG"})
            => \A s \in flight' : ~(s.ini = i /\ s.post = postNo[i])]_vars

(***************************************************************************)
(* Properties of the error path of prepXfer (SpecMp).                      *)
(***************************************************************************)
\* C39: when prepXfer of the engine of engines has failed at a cell of its
\* matrix, every sub-engine request it had prepared before, in any row and
\* column, has been released, only prepared requests have been released, and
\* no handle has been returned.
C39_PreparedCellsReleased ==
    mpRet = "NIXL_ERR_INVALID_PARAM"
        => /\ mpPrepared = mpReleased
           /\ ~mpHandle

(***************************************************************************)
(* Properties of agent indices (SpecConn).                                 *)
(***************************************************************************)
\* C40: every connection record is the one agent_names_ names at the
\* record's agent index, and every CONNECTION_ACK on its way to the
\* initiator carries an index that agent_names_ resolves to the agent the
\* request was sent to, whose connection record exists.
C40_AckResolvesToItsAgent ==
    /\ \A a \in Peers :
          connections_[a] # NoConn =>
              /\ connections_[a].agent_index_ \in 0 .. Len(agent_names_) - 1
              /\ agent_names_[connections_[a].agent_index_ + 1] = a
    /\ \A k \in acks :
          /\ k.agent_idx \in 0 .. Len(agent_names_) - 1
          /\ agent_names_[k.agent_idx + 1] = k.from
          /\ connections_[k.from] # NoConn

\* C40 witness: an agent was loaded, disconnected and loaded again, and the
\* ACK of its second handshake is on its way with the second index.
C40_AckAfterReload ==
    \E k \in acks :
        /\ k.agent_idx > 0
        /\ \E j \in 1 .. k.agent_idx : agent_names_[j] = k.from
        /\ uPc = "wait" /\ uAgent = k.from

====
